---- MODULE Spec2Model ----
(***************************************************************************)
(* colmena-health: the alert dispatcher (src/src/alertmanager.rs), the     *)
(* retrier (src/src/retry.rs), the check tasks with the Reporter and main  *)
(* (src/src/main.rs, report.rs, alert.rs) and the label selector           *)
(* (src/src/select.rs) as state machines.                                  *)
(*                                                                         *)
(* SpecDispatcher: AlertManagerClient::run with its update channel, its    *)
(*                 re-announcement interval and the alert sink.            *)
(* SpecRetrier:    one Retrier driven through successive retry() calls.    *)
(* SpecReport:     report mode: one run_check per check, the channel, the  *)
(*                 Reporter and main's count; FairReport adds fairness.    *)
(* SpecLifecycle:  the dispatcher with the task of one check as producer.  *)
(* SpecConsumers:  either consumer of the channel, fed any updates.        *)
(* SpecAlert:      alert mode: run_check_for_alerts per check; FairAlert   *)
(*                 adds fairness.                                          *)
(* SpecSelect:     Term::from_str and Term::matches on drawn texts.        *)
(* SpecLabelName:  the label_name parser on drawn texts.                   *)
(* FairTasks:      report mode with every task and main scheduled fairly.  *)
(* SpecConfig:     main's layering of defaults under a check's settings.   *)
(***************************************************************************)
EXTENDS Integers, Sequences, FiniteSets, TLC

\* ------------------------------------------------------------------ bounds
\* updates sent into the channel over one run
MaxUpdates == 2
\* the clock runs from 0 to MaxTime
MaxTime == 2
\* POSTs that end in a transport error over one run
MaxPostErrors == 1
\* the configured realert_interval, in clock units
RealertInterval == 1
\* the largest max_retries a policy is drawn with
MaxRetries == 3
\* retry() calls made on one Retrier
MaxCalls == 5

\* ------------------------------------------------------ program constants
\* Retrier.attempts is a u16
U16Range == 65536

\* ------------------------------------------------------------- Option<T>
None == <<>>
Some(x) == <<x>>

\* ---------------------------------------------------------- configuration
\* AlertManagerClient.registry: id -> CheckInfo {name, labels, annotations}
registry ==
    (1 :> [name |-> "web", labels |-> [hostname |-> "h1"],
           annotations |-> [summary |-> "web down"]])
 @@ (2 :> [name |-> "dns", labels |-> [hostname |-> "h2"],
           annotations |-> [output |-> "static"]])

\* ids an update can carry: the registered ones and one that is not registered
CheckIds == DOMAIN registry \cup {3}

\* CheckUpdate {id, status, msg}: the updates the producers send. Failed comes
\* with and without a message; the statuses the dispatcher ignores come once each.
CheckUpdate ==
    [id : CheckIds, status : {"Failed"}, msg : {Some("boom")}]
      \cup [id : DOMAIN registry, status : {"Succeeded"}, msg : {None}]
      \cup {[id |-> 1, status |-> "Failed", msg |-> None],
            [id |-> 1, status |-> "Running", msg |-> None],
            [id |-> 1, status |-> "Retrying", msg |-> Some("boom")],
            [id |-> 2, status |-> "Waiting", msg |-> None]}

\* the producer handles of the update channel: the owning handle and a task's
Handles == {"owner", "task"}

VARIABLES
    \* --- alert dispatcher
    active_alerts,      \* AlertManagerClient.active_alerts: id -> PostableAlert
    alert_config,       \* AlertManagerClient.alert_config
    updates,            \* the update channel's queue
    senders,            \* the number of live producer handles of the channel
    nsent,              \* updates sent so far
    pc,                 \* where AlertManagerClient::run stands
    cur,                \* the id process_update is handling across its await
    interval,           \* the deadline of the next interval.tick()
    now,                \* the clock
    posts,              \* every POST issued to the alert sink, in order
    handled,            \* every update run has received, in order
    \* --- retrier
    retrier,            \* Retrier {policy, last, attempts}
    rounding,           \* how the build's Duration::mul_f64 rounds to whole nanoseconds
    rpc,                \* where Retrier::retry stands
    dur,                \* retry's local dur across its sleep
    slept,              \* the durations retry() has passed to sleep, in order
    rets,               \* the values retry() has returned, in order
    \* --- check tasks, reporter and main
    run_mode,           \* the mode of the run: "report" or "alert"
    checks,             \* id -> the check's retry policy, intervals and probe kind
    task,               \* id -> where the task stands, its Retrier, its outcome
    emitted,            \* id -> the updates the task has sent, in order
    probes,             \* id -> how the task's probe invocations ended, in order
    names,              \* the Reporter's registry: id -> name
    printed,            \* what the Reporter has printed, in order
    ppc,                \* where the Reporter stands
    mpc,                \* where main stands
    failures,           \* the count run_report keeps of the failed checks
    result,             \* what main returns, None until it returns
    \* --- label selector
    sel_text,           \* the text of a selection term
    sel_labels,         \* the label map the term is tried on
    sel_term,           \* Term::from_str of the text, None before the call
    sel_selected,       \* Term::matches on the label map, None before the call
    \* --- configuration layering
    cfg_defaults,       \* Config.defaults: the global defaults of the file
    cfg_check,          \* one CheckDefinition of the file
    cfg_probe,          \* the check's probe parameters as resolved, None before
    cfg_policy          \* the check's retry policy as resolved, None before

dvars == <<active_alerts, alert_config, updates, senders, nsent, pc, cur, interval, now, posts,
           handled>>

rvars == <<retrier, rounding, rpc, dur, slept, rets>>

tvars == <<run_mode, checks, task, emitted, probes, names, printed, ppc, mpc, failures, result>>

svars == <<sel_text, sel_labels, sel_term, sel_selected>>

cvars == <<cfg_defaults, cfg_check, cfg_probe, cfg_policy>>

vars == <<dvars, rvars, svars, cvars, tvars>>

\* ---------------------------------------------------------------- helpers
\* HashMap::insert
MapInsert(m, k, v) == [j \in DOMAIN m \cup {k} |-> IF j = k THEN v ELSE m[j]]

\* HashMap::remove
MapRemove(m, k) == [j \in DOMAIN m \ {k} |-> m[j]]

\* HashMap::values().collect(): the alerts of the map without their ids, as a
\* bag (alert -> number of ids that carry it)
Values(m) ==
    [a \in {m[i] : i \in DOMAIN m} |-> Cardinality({i \in DOMAIN m : m[i] = a})]

\* (mutant) the alert built without looking at allow_output_annotation
NewAlert_always_output(update, info, at, cfg) ==
    [starts_at |-> Some(at),
     ends_at |-> None,
     labels |-> info.labels,
     annotations |->
        IF update.msg # None
        THEN MapInsert(info.annotations, "output", update.msg[1])
        ELSE info.annotations,
     generator_url |-> None]

\* the PostableAlert built for a Failed update
NewAlert(update, info, at, cfg) ==
    [starts_at |-> Some(at),
     ends_at |-> None,
     labels |-> info.labels,
     annotations |->
        IF cfg.allow_output_annotation /\ update.msg # None
        THEN MapInsert(info.annotations, "output", update.msg[1])
        ELSE info.annotations,
     generator_url |-> None]

\* the call sites of send_alerts: the label run waits under, and the name the
\* POST is logged with
CallSite ==
    [post_insert |-> "insert", post_resolve |-> "resolve",
     post_tick |-> "tick", post_final |-> "final"]

\* send_alerts up to its await: the request with the current alerts leaves
send_alerts(alerts, then) ==
    /\ posts' = Append(posts, [payload |-> Values(alerts), result |-> "pending",
                               by |-> CallSite[then]])
    /\ pc' = then

\* (mutant) the next deadline under MissedTickBehavior::Burst: missed ticks
\* stay due
NextDeadline_burst(deadline, at, period) == deadline + period

\* Interval::tick's next deadline under MissedTickBehavior::Skip
NextDeadline(deadline, at, period) ==
    at + period - ((at - deadline) % period)

\* retry::Policy {max_retries, initial, multiplier}: initial in nanoseconds,
\* multiplier as the ratio num/den
Policies ==
    [max_retries : 0..MaxRetries,
     initial : {1, 2, 5},
     multiplier : {[num |-> 1, den |-> 1], [num |-> 3, den |-> 2],
                   [num |-> 2, den |-> 1], [num |-> 11, den |-> 10]}]

\* Retrier::new
Retrier_new(policy) == [policy |-> policy, last |-> None, attempts |-> 0]

\* Duration::mul_f64: the product as a Duration of whole nanoseconds. Builds
\* differ in the conversion from f64: it truncates or rounds to nearest, ties
\* to even.
mul_f64(d, m, mode) ==
    LET q == (d * m.num) \div m.den
        rem2 == 2 * ((d * m.num) % m.den)
    IN  IF mode = "truncate" THEN q
        ELSE IF rem2 > m.den \/ (rem2 = m.den /\ q % 2 = 1) THEN q + 1 ELSE q

\* (mutant) the exhaustion test off by one
Exhausted_gt(r) == r.attempts > r.policy.max_retries

\* retry: the exhaustion test
Exhausted(r) == r.attempts >= r.policy.max_retries

\* (mutant) the wait grown from policy.initial instead of from last
NextWait_from_initial(r, mode) ==
    IF r.last = None THEN r.policy.initial
    ELSE mul_f64(r.policy.initial, r.policy.multiplier, mode)

\* retry: the wait of this call
NextWait(r, mode) ==
    IF r.last = None THEN r.policy.initial
    ELSE mul_f64(r.last[1], r.policy.multiplier, mode)

\* (mutant) the bookkeeping without the increment of attempts
Record_keep_attempts(r, d) == [r EXCEPT !.last = Some(d)]

\* retry: the bookkeeping after the sleep
Record(r, d) ==
    [r EXCEPT !.last = Some(d), !.attempts = (r.attempts + 1) % U16Range]

\* ------------------------------------------------------------------- Init
DispatcherIdle ==
    /\ active_alerts = <<>>
    /\ alert_config = [allow_output_annotation |-> FALSE,
                       realert_interval |-> RealertInterval]
    /\ updates = <<>>
    /\ senders = 0
    /\ nsent = 0
    /\ pc = "done"
    /\ cur = None
    /\ interval = 0
    /\ now = 0
    /\ posts = <<>>
    /\ handled = <<>>

RetrierIdle ==
    /\ retrier = Retrier_new([max_retries |-> 0, initial |-> 1,
                              multiplier |-> [num |-> 1, den |-> 1]])
    /\ rounding = "truncate"
    /\ rpc = "unused"
    /\ dur = None
    /\ slept = <<>>
    /\ rets = <<>>

TasksIdle ==
    /\ run_mode = "none"
    /\ checks = <<>>
    /\ task = <<>>
    /\ emitted = <<>>
    /\ probes = <<>>
    /\ names = <<>>
    /\ printed = <<>>
    /\ ppc = "unused"
    /\ mpc = "unused"
    /\ failures = 0
    /\ result = None

ConfigIdle ==
    /\ cfg_defaults = <<>>
    /\ cfg_check = <<>>
    /\ cfg_probe = None
    /\ cfg_policy = None

SelectIdle ==
    /\ sel_text = <<>>
    /\ sel_labels = <<>>
    /\ sel_term = None
    /\ sel_selected = None

InitRetrier ==
    /\ DispatcherIdle
    /\ TasksIdle
    /\ SelectIdle
    /\ ConfigIdle
    /\ retrier \in {Retrier_new(p) : p \in Policies}
    /\ rounding \in {"truncate", "nearest"}
    /\ rpc = "idle"
    /\ dur = None
    /\ slept = <<>>
    /\ rets = <<>>

InitDispatcher ==
    /\ RetrierIdle
    /\ TasksIdle
    /\ SelectIdle
    /\ ConfigIdle
    /\ active_alerts = <<>>
    /\ alert_config \in [allow_output_annotation : BOOLEAN,
                         realert_interval : {RealertInterval}]
    /\ updates = <<>>
    /\ senders = Cardinality(Handles)
    /\ nsent = 0
    /\ pc = "select"
    /\ cur = None
    /\ interval = 0
    /\ now = 0
    /\ posts = <<>>
    /\ handled = <<>>

\* ---------------------------------------------------------------- actions
\* (mutant) the Failed arm without its contains_key test
process_failed_reinsert(update) ==
    IF update.id \in DOMAIN registry
    THEN /\ active_alerts' = MapInsert(active_alerts, update.id,
                NewAlert(update, registry[update.id], now, alert_config))
         /\ send_alerts(active_alerts', "post_insert")
         /\ cur' = Some(update.id)
    ELSE UNCHANGED <<active_alerts, posts, pc, cur>>

\* process_update, the Failed arm, up to its await (or to its end when it does
\* not send)
process_failed(update) ==
    IF update.id \notin DOMAIN active_alerts /\ update.id \in DOMAIN registry
    THEN /\ active_alerts' = MapInsert(active_alerts, update.id,
                NewAlert(update, registry[update.id], now, alert_config))
         /\ send_alerts(active_alerts', "post_insert")
         /\ cur' = Some(update.id)
    ELSE UNCHANGED <<active_alerts, posts, pc, cur>>

\* (mutant) the Succeeded arm with send_alerts and remove outside the if let
process_succeeded_any(update) ==
    /\ active_alerts' = IF update.id \in DOMAIN active_alerts
                        THEN [active_alerts EXCEPT ![update.id].ends_at = Some(now)]
                        ELSE active_alerts
    /\ send_alerts(active_alerts', "post_resolve")
    /\ cur' = Some(update.id)

\* process_update, the Succeeded arm, up to its await (or to its end when it
\* does not send)
process_succeeded(update) ==
    IF update.id \in DOMAIN active_alerts
    THEN /\ active_alerts' = [active_alerts EXCEPT ![update.id].ends_at = Some(now)]
         /\ send_alerts(active_alerts', "post_resolve")
         /\ cur' = Some(update.id)
    ELSE UNCHANGED <<active_alerts, posts, pc, cur>>

\* process_update: the match on update.status
process_update(update) ==
    CASE update.status = "Failed" -> process_failed(update)
      [] update.status = "Succeeded" -> process_succeeded(update)
      [] OTHER -> UNCHANGED <<active_alerts, posts, pc, cur>>

\* run: the updates.recv() branch with Some(update)
run_recv ==
    /\ pc = "select"
    /\ updates # <<>>
    /\ updates' = Tail(updates)
    /\ handled' = Append(handled, Head(updates))
    /\ process_update(Head(updates))
    /\ UNCHANGED <<alert_config, senders, nsent, interval, now, rvars, svars, cvars, tvars>>

\* (mutant) run returns on None without the last send_alerts
run_closed_silent ==
    /\ pc = "select"
    /\ updates = <<>>
    /\ senders = 0
    /\ pc' = "done"
    /\ UNCHANGED <<active_alerts, alert_config, updates, senders, nsent, cur, interval, now,
                   posts, handled, rvars, svars, cvars, tvars>>

\* run: the updates.recv() branch with None (channel closed and drained)
run_closed ==
    /\ pc = "select"
    /\ updates = <<>>
    /\ senders = 0
    /\ send_alerts(active_alerts, "post_final")
    /\ UNCHANGED <<active_alerts, alert_config, updates, senders, nsent, cur, interval, now,
                   handled, rvars, svars, cvars, tvars>>

\* (mutant) the tick arm without its is_empty test
run_tick_always ==
    /\ pc = "select"
    /\ now >= interval
    /\ interval' = NextDeadline(interval, now, alert_config.realert_interval)
    /\ send_alerts(active_alerts, "post_tick")
    /\ UNCHANGED <<active_alerts, alert_config, updates, senders, nsent, cur, now, handled, rvars, svars, cvars, tvars>>

\* run: the interval.tick() branch
run_tick ==
    /\ pc = "select"
    /\ now >= interval
    /\ interval' = NextDeadline(interval, now, alert_config.realert_interval)
    /\ IF active_alerts # <<>>
       THEN send_alerts(active_alerts, "post_tick")
       ELSE UNCHANGED <<posts, pc>>
    /\ UNCHANGED <<active_alerts, alert_config, updates, senders, nsent, cur, now, handled, rvars, svars, cvars, tvars>>

\* (mutant) the Succeeded arm without its remove
AfterPost_keep ==
    /\ active_alerts' = active_alerts
    /\ pc' = IF pc = "post_final" THEN "done" ELSE "select"

\* (mutant) the Succeeded arm removes the alert only when its POST went through
AfterPost_remove_if_ok ==
    CASE pc = "post_resolve" ->
            /\ active_alerts' = IF posts'[Len(posts)].result = "ok"
                                THEN MapRemove(active_alerts, cur[1])
                                ELSE active_alerts
            /\ pc' = "select"
      [] pc = "post_final"   -> /\ active_alerts' = active_alerts
                                /\ pc' = "done"
      [] OTHER               -> /\ active_alerts' = active_alerts
                                /\ pc' = "select"

\* what follows the await of send_alerts, per call site
AfterPost ==
    CASE pc = "post_insert"  -> /\ active_alerts' = active_alerts
                                /\ pc' = "select"
      [] pc = "post_resolve" -> /\ active_alerts' = MapRemove(active_alerts, cur[1])
                                /\ pc' = "select"
      [] pc = "post_tick"    -> /\ active_alerts' = active_alerts
                                /\ pc' = "select"
      [] pc = "post_final"   -> /\ active_alerts' = active_alerts
                                /\ pc' = "done"

\* send_alerts after its await: the request ended, with or without an error
post_complete ==
    /\ pc \in {"post_insert", "post_resolve", "post_tick", "post_final"}
    /\ \E r \in {"ok", "err"} :
          /\ r = "err" => Cardinality({k \in DOMAIN posts : posts[k].result = "err"}) < MaxPostErrors
          /\ posts' = [posts EXCEPT ![Len(posts)].result = r]
    /\ AfterPost
    /\ cur' = None
    /\ UNCHANGED <<alert_config, updates, senders, nsent, interval, now, handled, rvars, svars, cvars, tvars>>

\* UnboundedSender::send by a Check Task
send ==
    /\ senders > 0
    /\ nsent < MaxUpdates
    /\ \E u \in CheckUpdate : updates' = Append(updates, u)
    /\ nsent' = nsent + 1
    /\ UNCHANGED <<active_alerts, alert_config, senders, pc, cur, interval, now, posts, handled,
                   rvars, svars, cvars, tvars>>

\* a producer handle is dropped
drop_sender ==
    /\ senders > 0
    /\ senders' = senders - 1
    /\ UNCHANGED <<active_alerts, alert_config, updates, nsent, pc, cur, interval, now, posts,
                   handled, rvars, svars, cvars, tvars>>

\* time passes
advance_time ==
    /\ now < MaxTime
    /\ now' = now + 1
    /\ UNCHANGED <<active_alerts, alert_config, updates, senders, nsent, pc, cur, interval, posts,
                   handled, rvars, svars, cvars, tvars>>

NextDispatcher ==
    \/ run_recv
    \/ run_closed
    \/ run_tick
    \/ post_complete
    \/ send
    \/ drop_sender
    \/ advance_time

SpecDispatcher == InitDispatcher /\ [][NextDispatcher]_vars

\* ------------------------------------------------ alert dispatcher: claims
\* this step takes the update at the head of the channel
Received == updates # <<>> /\ updates' = Tail(updates)

\* this step takes a Failed update for a registered id that has no alert
FailedNew ==
    /\ Received
    /\ Head(updates).status = "Failed"
    /\ Head(updates).id \in DOMAIN registry
    /\ Head(updates).id \notin DOMAIN active_alerts

\* this step takes a Failed update for an id that has an alert
FailedDup ==
    /\ Received
    /\ Head(updates).status = "Failed"
    /\ Head(updates).id \in DOMAIN active_alerts

\* this step takes a Succeeded update for an id that has an alert
SucceededActive ==
    /\ Received
    /\ Head(updates).status = "Succeeded"
    /\ Head(updates).id \in DOMAIN active_alerts

\* this step takes a Succeeded update for an id that has no alert
SucceededInactive ==
    /\ Received
    /\ Head(updates).status = "Succeeded"
    /\ Head(updates).id \notin DOMAIN active_alerts

\* the POST this step issues, if it issues the one POST `p`
Issues(p) == posts' = Append(posts, p)

\* this step inserts one alert for u.id, with the annotations ann, and POSTs
\* the whole map once
Inserted(u, ann) ==
    /\ DOMAIN active_alerts' = DOMAIN active_alerts \cup {u.id}
    /\ \A j \in DOMAIN active_alerts : active_alerts'[j] = active_alerts[j]
    /\ active_alerts'[u.id] =
          [starts_at |-> Some(now), ends_at |-> None, labels |-> registry[u.id].labels,
           annotations |-> ann, generator_url |-> None]
    /\ Issues([payload |-> Values(active_alerts'), result |-> "pending", by |-> "insert"])

\* the POSTs the updates caused (not the ticks, not the final flush)
UpdatePosts == SelectSeq(posts, LAMBDA p : p.by \in {"insert", "resolve"})

\* C1 as stated: a Failed update for a registered id without an alert inserts
\* one alert with startsAt = now, endsAt unset and the labels and annotations
\* of the registry entry, and issues one POST of the whole AlertState at once.
C1_AsStated ==
    [][FailedNew => Inserted(Head(updates), registry[Head(updates).id].annotations)]_vars

\* C1 amended: the same, the annotations being those of the registry entry
\* with "output" set to the update's message when allow_output_annotation is
\* configured and the update carries a message.
C1_InsertAndPost ==
    [][FailedNew =>
         Inserted(Head(updates),
                  IF alert_config.allow_output_annotation /\ Head(updates).msg # None
                  THEN ("output" :> Head(updates).msg[1])
                          @@ registry[Head(updates).id].annotations
                  ELSE registry[Head(updates).id].annotations)]_vars

C1_Witness ==
    /\ pc = "post_insert"
    /\ Cardinality(DOMAIN active_alerts) = 2
    /\ active_alerts[cur[1]].annotations # registry[cur[1]].annotations
    /\ posts[Len(posts)].payload = Values(active_alerts)

\* what the sink can tell apart: no payload carries two alerts of one check
OnePerCheck ==
    \A k \in DOMAIN posts :
        \A a, b \in DOMAIN posts[k].payload :
            /\ posts[k].payload[a] = 1
            /\ a.labels = b.labels => a = b

\* the updates received so far are k >= 1 Failed updates for one registered id
OnlyFailedFor(i) ==
    /\ handled # <<>>
    /\ \A k \in DOMAIN handled : handled[k].status = "Failed" /\ handled[k].id = i

\* C2: a Failed update for an id that has an alert changes nothing and sends
\* nothing; after k >= 1 consecutive Failed updates for one id one POST was
\* issued for them and AlertState holds the one entry of that id; no payload
\* ever carries two alerts of one check.
C2_FailedIdempotent ==
    /\ [][FailedDup => UNCHANGED <<active_alerts, posts, pc>>]_vars
    /\ [](\A i \in DOMAIN registry :
            OnlyFailedFor(i) => Len(UpdatePosts) = 1 /\ DOMAIN active_alerts = {i})
    /\ []OnePerCheck

C2_Witness ==
    /\ Len(handled) = 2
    /\ OnlyFailedFor(1)
    /\ pc = "select"
    /\ Len(posts) = 1

\* the updates received so far are Failed(i) then Succeeded(i), and
\* process_update has returned
FailedThenSucceeded(i) ==
    /\ Len(handled) = 2
    /\ handled[1].status = "Failed" /\ handled[1].id = i
    /\ handled[2].status = "Succeeded" /\ handled[2].id = i
    /\ pc \in {"select", "post_tick", "post_final", "done"}

\* C3: a Succeeded update for an id that has an alert sets endsAt = now on the
\* entry and issues one POST of the whole map, the ended alert in it; the
\* entry stays, ended, while that POST is under way and is removed when it
\* returns. Failed(i), Succeeded(i) gives two POSTs, the second with endsAt
\* for i, and no entry for i.
C3_ResolveThenRemove ==
    /\ [][SucceededActive =>
            /\ active_alerts' =
                  [active_alerts EXCEPT ![Head(updates).id].ends_at = Some(now)]
            /\ Issues([payload |-> Values(active_alerts'), result |-> "pending",
                       by |-> "resolve"])
            /\ active_alerts'[Head(updates).id] \in DOMAIN posts'[Len(posts')].payload
            /\ pc' = "post_resolve"]_vars
    /\ [][pc = "post_resolve" =>
            \/ UNCHANGED <<active_alerts, posts, pc>>
            \/ /\ posts'[Len(posts)].result # "pending"
               /\ Len(posts') = Len(posts)
               /\ active_alerts' = [j \in DOMAIN active_alerts \ {cur[1]} |-> active_alerts[j]]
               /\ pc' = "select"]_vars
    /\ [](pc = "post_resolve" =>
            /\ cur[1] \in DOMAIN active_alerts
            /\ active_alerts[cur[1]].ends_at # None
            /\ posts[Len(posts)].result = "pending")
    /\ [](\A i \in DOMAIN registry :
            FailedThenSucceeded(i) =>
                /\ Len(UpdatePosts) = 2
                /\ \E a \in DOMAIN UpdatePosts[2].payload :
                       a.labels = registry[i].labels /\ a.ends_at # None
                /\ i \notin DOMAIN active_alerts)

C3_Witness ==
    /\ FailedThenSucceeded(1)
    /\ pc = "select"
    /\ Len(posts) = 2
    /\ active_alerts = <<>>

\* C4: a Succeeded update for an id that has no alert changes nothing and
\* sends nothing.
C4_SucceededNoop ==
    [][SucceededInactive => UNCHANGED <<active_alerts, posts, pc, cur>>]_vars

C4_Witness ==
    /\ Len(handled) = 2
    /\ handled[1].status = "Failed" /\ handled[1].id = 1
    /\ handled[2].status = "Succeeded" /\ handled[2].id = 2
    /\ pc = "select"
    /\ Len(posts) = 1
    /\ DOMAIN active_alerts = {1}

\* C5: a tick of the interval leaves AlertState as it is; it issues no POST
\* when AlertState is empty and one POST of the whole map when it is not.
C5_Tick ==
    [][interval' # interval =>
         /\ active_alerts' = active_alerts
         /\ IF active_alerts = <<>>
            THEN posts' = posts
            ELSE Issues([payload |-> Values(active_alerts), result |-> "pending",
                         by |-> "tick"])]_vars

C5_Witness ==
    /\ Len(posts) = 3
    /\ posts[2].by = "tick" /\ posts[3].by = "tick"
    /\ posts[2].payload = posts[3].payload
    /\ posts[1].payload = posts[2].payload
    /\ interval > now

\* C6: when the channel is closed and drained run issues one last POST of the
\* current AlertState and returns: every update sent was received before that
\* POST, it is the only final one, and nothing changes after it.
C6_FinalFlush ==
    /\ [](pc \in {"post_final", "done"} =>
            /\ senders = 0 /\ updates = <<>> /\ Len(handled) = nsent
            /\ posts # <<>>
            /\ posts[Len(posts)].by = "final"
            /\ posts[Len(posts)].payload = Values(active_alerts)
            /\ Cardinality({k \in DOMAIN posts : posts[k].by = "final"}) = 1)
    /\ [][pc = "post_final" =>
            active_alerts' = active_alerts /\ Len(posts') = Len(posts) /\ handled' = handled]_vars
    /\ [][pc = "done" => UNCHANGED <<active_alerts, posts, pc, handled>>]_vars
    /\ [][pc # "done" /\ pc' = "done" => pc = "post_final"]_vars

C6_Witness ==
    /\ pc = "done"
    /\ Len(handled) = 2
    /\ active_alerts # <<>>
    /\ posts[Len(posts)].result = "ok"

\* the alerts of the POSTs issued, and of those that reached the sink
Delivered(a) == \E k \in DOMAIN posts : posts[k].result = "ok" /\ a \in DOMAIN posts[k].payload

\* C7 as stated: once a POST succeeds again the sink has observed every alert
\* start and every alert resolution that an earlier, failed POST carried.
C7_SinkCatchesUp ==
    (posts # <<>> /\ posts[Len(posts)].result = "ok") =>
        \A k \in DOMAIN posts : \A a \in DOMAIN posts[k].payload :
            /\ \E b \in {x \in UNION {DOMAIN posts[j].payload : j \in DOMAIN posts} :
                             Delivered(x)} :
                   b.labels = a.labels /\ b.starts_at = a.starts_at
            /\ a.ends_at # None => Delivered(a)

\* ---------------------------------------------------------------- retrier
\* retry() up to its sleep: None at once when exhausted, else the sleep starts
retry_call ==
    /\ rpc = "idle"
    /\ Len(rets) < MaxCalls
    /\ IF Exhausted(retrier)
       THEN /\ rets' = Append(rets, None)
            /\ UNCHANGED <<retrier, rpc, dur, slept>>
       ELSE /\ dur' = Some(NextWait(retrier, rounding))
            /\ slept' = Append(slept, dur'[1])
            /\ rpc' = "sleeping"
            /\ UNCHANGED <<retrier, rets>>
    /\ UNCHANGED <<rounding, dvars, tvars, svars, cvars>>

\* retry() after its sleep
retry_wake ==
    /\ rpc = "sleeping"
    /\ retrier' = Record(retrier, dur[1])
    /\ rets' = Append(rets, Some(retrier'.attempts))
    /\ rpc' = "idle"
    /\ dur' = None
    /\ UNCHANGED <<rounding, slept, dvars, tvars, svars, cvars>>

NextRetrier ==
    \/ retry_call
    \/ retry_wake

SpecRetrier == InitRetrier /\ [][NextRetrier]_vars

\* ---------------------------------------------------------- retrier: claims
RECURSIVE Pow(_, _)
Pow(b, e) == IF e = 0 THEN 1 ELSE b * Pow(b, e - 1)

\* the calls of retry() that returned an attempt number
Granted == {k \in DOMAIN rets : rets[k] # None}

\* C8: with max_retries = N the calls return Some(1), ..., Some(N) in this
\* order and None ever after; attempts grows by one per non-None return and
\* stays within N, hence within 16 bits.
C8_ReturnSequence ==
    /\ \A k \in DOMAIN rets :
          rets[k] = IF k <= retrier.policy.max_retries THEN Some(k) ELSE None
    /\ retrier.attempts = Cardinality(Granted)
    /\ retrier.attempts <= retrier.policy.max_retries
    /\ retrier.attempts < U16Range

C8_Witness ==
    /\ retrier.policy.max_retries = MaxRetries
    /\ Len(rets) = MaxCalls
    /\ rets[MaxRetries] = Some(MaxRetries)
    /\ rets[MaxCalls] = None

\* the waits obey an order: the k-th wait starts before the k-th attempt
\* number is returned, and last_wait is the wait just performed
WaitBeforeReturn ==
    /\ Len(slept) = Cardinality(Granted) + (IF rpc = "sleeping" THEN 1 ELSE 0)
    /\ (rpc = "idle" /\ slept # <<>>) => retrier.last = Some(slept[Len(slept)])
    /\ (rpc = "idle" /\ slept = <<>>) => retrier.last = None

\* C9 as stated: the first wait is initial and the k-th wait is exactly
\* initial * multiplier^(k-1).
C9_AsStated ==
    /\ WaitBeforeReturn
    /\ \A k \in DOMAIN slept :
          slept[k] * Pow(retrier.policy.multiplier.den, k - 1)
            = retrier.policy.initial * Pow(retrier.policy.multiplier.num, k - 1)

\* C9 amended: the first wait is exactly initial; every later wait is the
\* previous wait times multiplier brought to a whole number of nanoseconds
\* (the fraction dropped, or rounded to nearest, as the build's
\* Duration::mul_f64 does), so it is within one nanosecond of that product and
\* under no cap; last_wait is the wait just performed and the wait comes
\* before the return.
C9_WaitGrowth ==
    /\ WaitBeforeReturn
    /\ slept # <<>> => slept[1] = retrier.policy.initial
    /\ \A k \in DOMAIN slept \ {1} :
          LET exact == slept[k - 1] * retrier.policy.multiplier.num
              got == slept[k] * retrier.policy.multiplier.den
          IN  IF rounding = "truncate"
              THEN got <= exact /\ exact < got + retrier.policy.multiplier.den
              ELSE 2 * (got - exact) <= retrier.policy.multiplier.den
                     /\ 2 * (exact - got) <= retrier.policy.multiplier.den

C9_Witness ==
    /\ Len(slept) = 3
    /\ rpc = "idle"
    /\ retrier.policy.multiplier = [num |-> 3, den |-> 2]
    /\ slept[2] * 2 # slept[1] * 3
    /\ slept[3] > slept[2]

\* C10: an exhausted Retrier answers None at once: no wait, attempts and
\* last_wait as they were; with max_retries = 0 this is so from the first call.
C10_Exhaustion ==
    /\ [][(rpc = "idle" /\ retrier.attempts >= retrier.policy.max_retries) =>
            /\ rets' = Append(rets, None)
            /\ UNCHANGED <<retrier, slept, rpc, dur>>]_vars
    /\ [](retrier.policy.max_retries = 0 =>
            slept = <<>> /\ \A k \in DOMAIN rets : rets[k] = None)

C10_Witness ==
    /\ retrier.policy.max_retries = 0
    /\ Len(rets) = 2
    /\ rets[1] = None
    /\ slept = <<>>
    /\ retrier.last = None

\* ------------------------------------------------------------ check tasks
\* the largest max_retries a check task's policy is drawn with
MaxTaskRetries == 1
\* in alert mode, where a task never ends, the updates kept of emitted and probes
TrailLen == 3

\* one check task per registered check
Tasks == DOMAIN registry

\* the kind of probe each check runs
ProbeKind == (1 :> "http") @@ (2 :> "dns")

\* the retry policies the check tasks are drawn with
TaskPolicies ==
    [max_retries : 0..MaxTaskRetries, initial : {2}, multiplier : {[num |-> 3, den |-> 2]}]

\* a check as run_check and run_check_for_alerts get it: its retry policy, its
\* alert policy {check_interval, recheck_interval} and its probe
CheckConfigs(t) ==
    [policy : TaskPolicies, check_interval : {5}, recheck_interval : {3},
     kind : {ProbeKind[t]}]

\* CheckUpdate {id, status, msg}
Update(id, status, msg) == [id |-> id, status |-> status, msg |-> msg]

\* the update with CheckStatus::Waiting(duration, reason)
Waiting(id, d, reason) ==
    [id |-> id, status |-> "Waiting", msg |-> None, wait |-> <<d, reason>>]

\* the end of a log, all of it in report mode
Keep(log) ==
    IF run_mode = "alert" /\ Len(log) > TrailLen
    THEN SubSeq(log, Len(log) - TrailLen + 1, Len(log))
    ELSE log

\* (mutant) a channel that hands out the newest update first
Emit_lifo(t, us) ==
    /\ emitted' = [emitted EXCEPT ![t] = Keep(@ \o us)]
    /\ updates' = IF run_mode = "report" THEN us \o updates ELSE updates

\* UnboundedSender::send of the updates us by task t, in order. The channel's
\* queue is followed in report mode, where its consumer is part of the run.
Emit(t, us) ==
    /\ emitted' = [emitted EXCEPT ![t] = Keep(@ \o us)]
    /\ updates' = IF run_mode = "report" THEN updates \o us ELSE updates

\* how a probe invocation can end: Ok, Err, or the timeout around it. The HTTP
\* probe is drawn with the failure after a response (its status is not a
\* success) and with the timeout, the DNS probe with its plain error.
ProbeOutcomes(kind) ==
    IF kind = "http" THEN {"ok", "status", "timeout"} ELSE {"ok", "err"}

\* the error a failed probe invocation is reported with
ErrorText(outcome) ==
    CASE outcome = "timeout" -> "Check timed out"
      [] outcome = "status" -> "bad status"
      [] OTHER -> "boom"

\* run_check's loop head up to the probe's first await: Running, and what the
\* probe itself sends as it starts
Attempt(t) ==
    <<Update(t, "Running", None)>>
      \o (IF checks[t].kind = "http"
          THEN <<Update(t, "Running", Some("making request"))>> ELSE <<>>)

\* what the probe itself sends before it ends with this outcome
Notes(t, outcome) ==
    IF checks[t].kind = "http" /\ outcome \in {"ok", "status"}
    THEN <<Update(t, "Running", Some("response status"))>> ELSE <<>>

\* (mutant) run_check at its loop head once more after Succeeded
OnSuccess_and_running(t) == <<Update(t, "Succeeded", None), Update(t, "Running", None)>>

\* run_check's updates for a probe invocation that succeeded
OnSuccess(t) == <<Update(t, "Succeeded", None)>>

\* (mutant) run_check goes to the Retrier without telling of the failure
OnFailure_silent(t, outcome) == <<>>

\* run_check's update for a probe invocation that failed. (main.rs spells this
\* status Waiting(err); alert.rs's Waiting carries a duration and a reason, so
\* the progress update keeps the name Retrying here.)
OnFailure(t, outcome) == <<Update(t, "Retrying", Some(ErrorText(outcome)))>>

\* (mutant) run_check returns Failure without its Failed update
OnExhausted_silent(t) == <<>>

\* run_check's last update when the Retrier is exhausted
OnExhausted(t) == <<Update(t, "Failed", Some("Maximum retries reached"))>>

\* (mutant) the count without its filter on is_failure
report_collect_unfiltered(t, res, us) ==
    /\ task' = [task EXCEPT ![t].pc = "done", ![t].outcome = Some(res)]
    /\ Emit(t, us)
    /\ senders' = senders - 1
    /\ failures' = failures + 1
    /\ mpc' = IF \A o \in Tasks \ {t} : task[o].pc = "done" THEN "join_printer" ELSE mpc

\* run_report's stream of finished checks: the task's future is done and
\* dropped with its producer handle, filter and count see its result, and the
\* count is in once the last task is done
report_collect(t, res, us) ==
    /\ task' = [task EXCEPT ![t].pc = "done", ![t].outcome = Some(res)]
    /\ Emit(t, us)
    /\ senders' = senders - 1
    /\ failures' = IF res = "Failure" THEN failures + 1 ELSE failures
    /\ mpc' = IF \A o \in Tasks \ {t} : task[o].pc = "done" THEN "join_printer" ELSE mpc

\* (mutant) run_check_for_alerts with the recheck wait after a success as well
alert_continue_recheck_first(t, res, us) ==
    /\ IF res = "Failure"
       THEN /\ task' = [task EXCEPT ![t].pc = "recheck",
                                    ![t].wait = Some(checks[t].recheck_interval)]
            /\ Emit(t, us \o <<Waiting(t, checks[t].recheck_interval, "recheck")>>)
       ELSE /\ task' = [task EXCEPT ![t].pc = "next_check",
                                    ![t].wait = Some(checks[t].check_interval)]
            /\ Emit(t, us \o <<Waiting(t, checks[t].recheck_interval, "recheck"),
                                Waiting(t, checks[t].check_interval, "next check")>>)
    /\ UNCHANGED <<senders, failures, mpc>>

\* (mutant) run_check_for_alerts sleeps check_interval after a failure too
alert_continue_one_interval(t, res, us) ==
    /\ IF res = "Failure"
       THEN /\ task' = [task EXCEPT ![t].pc = "recheck",
                                    ![t].wait = Some(checks[t].check_interval)]
            /\ Emit(t, us \o <<Waiting(t, checks[t].recheck_interval, "recheck")>>)
       ELSE /\ task' = [task EXCEPT ![t].pc = "next_check",
                                    ![t].wait = Some(checks[t].check_interval)]
            /\ Emit(t, us \o <<Waiting(t, checks[t].check_interval, "next check")>>)
    /\ UNCHANGED <<senders, failures, mpc>>

\* (mutant) run_check_for_alerts returns when run_check has failed
alert_continue_gives_up(t, res, us) ==
    /\ IF res = "Failure"
       THEN /\ task' = [task EXCEPT ![t].pc = "done", ![t].outcome = Some(res)]
            /\ Emit(t, us)
       ELSE /\ task' = [task EXCEPT ![t].pc = "next_check",
                                    ![t].wait = Some(checks[t].check_interval)]
            /\ Emit(t, us \o <<Waiting(t, checks[t].check_interval, "next check")>>)
    /\ UNCHANGED <<senders, failures, mpc>>

\* run_check_for_alerts once run_check has returned, up to its sleep
alert_continue(t, res, us) ==
    /\ IF res = "Failure"
       THEN /\ task' = [task EXCEPT ![t].pc = "recheck",
                                    ![t].wait = Some(checks[t].recheck_interval)]
            /\ Emit(t, us \o <<Waiting(t, checks[t].recheck_interval, "recheck")>>)
       ELSE /\ task' = [task EXCEPT ![t].pc = "next_check",
                                    ![t].wait = Some(checks[t].check_interval)]
            /\ Emit(t, us \o <<Waiting(t, checks[t].check_interval, "next check")>>)
    /\ UNCHANGED <<senders, failures, mpc>>

\* run_check returns res to its caller, having sent us
run_check_returns(t, res, us) ==
    IF run_mode = "report" THEN report_collect(t, res, us) ELSE alert_continue(t, res, us)

\* (mutant) run_check going on with the Retrier of the call before
run_check_start_same_retrier(t) ==
    /\ run_mode = "report" => mpc = "block_on_checks"
    /\ task[t].pc \in {"ready", "recheck", "next_check"}
    /\ task' = [task EXCEPT ![t].pc = "probing",
                            ![t].wait = None]
    /\ Emit(t, Attempt(t))
    /\ UNCHANGED <<active_alerts, alert_config, senders, nsent, pc, cur, interval, now,
                   posts, handled, rvars, svars, cvars, run_mode, checks, probes, names, printed, ppc, mpc,
                   failures, result>>

\* run_check is called: at the task's first poll, and again by
\* run_check_for_alerts after each of its sleeps. A fresh Retrier, Running, and
\* the probe is invoked.
run_check_start(t) ==
    /\ run_mode = "report" => mpc = "block_on_checks"
    /\ task[t].pc \in {"ready", "recheck", "next_check"}
    /\ task' = [task EXCEPT ![t].pc = "probing",
                            ![t].retrier = Retrier_new(checks[t].policy),
                            ![t].wait = None]
    /\ Emit(t, Attempt(t))
    /\ UNCHANGED <<active_alerts, alert_config, senders, nsent, pc, cur, interval, now,
                   posts, handled, rvars, svars, cvars, run_mode, checks, probes, names, printed, ppc, mpc,
                   failures, result>>

\* the probe (under its timeout) ends, and run_check goes on up to its next
\* await or to its return
probe_done(t) ==
    /\ task[t].pc = "probing"
    /\ \E outcome \in ProbeOutcomes(checks[t].kind) :
          /\ probes' = [probes EXCEPT ![t] = Keep(Append(@, outcome))]
          /\ IF outcome = "ok"
             THEN run_check_returns(t, "Success", Notes(t, outcome) \o OnSuccess(t))
             ELSE IF Exhausted(task[t].retrier)
             THEN run_check_returns(t, "Failure",
                      Notes(t, outcome) \o OnFailure(t, outcome) \o OnExhausted(t))
             ELSE /\ task' = [task EXCEPT ![t].pc = "backoff",
                                  ![t].wait = Some(NextWait(task[t].retrier, rounding))]
                  /\ Emit(t, Notes(t, outcome) \o OnFailure(t, outcome))
                  /\ UNCHANGED <<senders, failures, mpc>>
    /\ UNCHANGED <<active_alerts, alert_config, nsent, pc, cur, interval, now, posts, handled,
                   rvars, svars, cvars, run_mode, checks, names, printed, ppc, result>>

\* the Retrier's sleep is over: retry() returns Some, and run_check is at its
\* loop head again
backoff_wake(t) ==
    /\ task[t].pc = "backoff"
    /\ task' = [task EXCEPT ![t].pc = "probing",
                            ![t].retrier = Record(@, task[t].wait[1]),
                            ![t].wait = None]
    /\ Emit(t, Attempt(t))
    /\ UNCHANGED <<active_alerts, alert_config, senders, nsent, pc, cur, interval, now,
                   posts, handled, rvars, svars, cvars, run_mode, checks, probes, names, printed, ppc, mpc,
                   failures, result>>

\* (mutant) main keeps the owning handle of the channel
main_drop_tx_kept ==
    /\ mpc = "drop_tx"
    /\ mpc' = "spawn"
    /\ UNCHANGED <<dvars, rvars, svars, cvars, run_mode, checks, task, emitted, probes, names, printed, ppc,
                   failures, result>>

\* main: drop(tx), the owning handle of the channel
main_drop_tx ==
    /\ mpc = "drop_tx"
    /\ senders' = senders - 1
    /\ mpc' = "spawn"
    /\ UNCHANGED <<active_alerts, alert_config, updates, nsent, pc, cur, interval, now, posts,
                   handled, rvars, svars, cvars, run_mode, checks, task, emitted, probes, names, printed, ppc,
                   failures, result>>

\* run_report: rt.spawn(print_verbose(..)), then block_on of the checks
main_spawn ==
    /\ mpc = "spawn"
    /\ ppc' = "recv"
    /\ mpc' = "block_on_checks"
    /\ UNCHANGED <<dvars, rvars, svars, cvars, run_mode, checks, task, emitted, probes, names, printed, failures,
                   result>>

\* (mutant) print_verbose gives up on an id its registry does not hold
print_verbose_recv_strict ==
    /\ ppc = "recv"
    /\ updates # <<>>
    /\ IF Head(updates).id \in DOMAIN names
       THEN /\ printed' = Append(printed, [name |-> names[Head(updates).id],
                                           status |-> Head(updates).status,
                                           lines |-> Head(updates).msg])
            /\ ppc' = ppc
       ELSE /\ printed' = printed
            /\ ppc' = "ended"
    /\ handled' = Append(handled, Head(updates))
    /\ updates' = Tail(updates)
    /\ UNCHANGED <<active_alerts, alert_config, senders, nsent, pc, cur, interval, now, posts,
                   rvars, svars, cvars, run_mode, checks, task, emitted, probes, names, mpc, failures,
                   result>>

\* print_verbose: rx.recv() gives Some(update), which is printed
print_verbose_recv ==
    /\ ppc = "recv"
    /\ updates # <<>>
    /\ LET update == Head(updates)
           name == IF update.id \in DOMAIN names THEN names[update.id] ELSE "unknown check"
       IN  printed' = Append(printed, [name |-> name, status |-> update.status,
                                       lines |-> update.msg])
    /\ handled' = Append(handled, Head(updates))
    /\ updates' = Tail(updates)
    /\ UNCHANGED <<active_alerts, alert_config, senders, nsent, pc, cur, interval, now, posts,
                   rvars, svars, cvars, run_mode, checks, task, emitted, probes, names, ppc, mpc, failures,
                   result>>

\* print_verbose: rx.recv() gives None, the channel is closed and drained
print_verbose_end ==
    /\ ppc = "recv"
    /\ updates = <<>>
    /\ senders = 0
    /\ ppc' = "ended"
    /\ UNCHANGED <<dvars, rvars, svars, cvars, run_mode, checks, task, emitted, probes, names, printed, mpc,
                   failures, result>>

\* (mutant) main makes the run's result without joining the Reporter
main_join_detached ==
    /\ mpc = "join_printer"
    /\ mpc' = "exit"
    /\ result' = Some(IF failures > 0
                      THEN [ok |-> FALSE, text |-> <<failures, " check(s) failed">>]
                      ELSE [ok |-> TRUE, text |-> <<>>])
    /\ UNCHANGED <<dvars, rvars, svars, cvars, run_mode, checks, task, emitted, probes, names, printed, ppc,
                   failures>>

\* run_report: block_on(printer) returns, and the run's result is made
main_join ==
    /\ mpc = "join_printer"
    /\ ppc = "ended"
    /\ mpc' = "exit"
    /\ result' = Some(IF failures > 0
                      THEN [ok |-> FALSE, text |-> <<failures, " check(s) failed">>]
                      ELSE [ok |-> TRUE, text |-> <<>>])
    /\ UNCHANGED <<dvars, rvars, svars, cvars, run_mode, checks, task, emitted, probes, names, printed, ppc,
                   failures>>

\* the tasks as they are before their first poll
TasksReady ==
    /\ checks \in [Tasks -> UNION {CheckConfigs(t) : t \in Tasks}]
    /\ \A t \in Tasks : checks[t] \in CheckConfigs(t)
    /\ task = [t \in Tasks |-> [pc |-> "ready", retrier |-> Retrier_new(checks[t].policy),
                                wait |-> None, outcome |-> None]]
    /\ emitted = [t \in Tasks |-> <<>>]
    /\ probes = [t \in Tasks |-> <<>>]

\* report mode, in main before drop(tx): the channel has the owning handle and
\* one handle per check
InitReport ==
    /\ RetrierIdle
    /\ SelectIdle
    /\ ConfigIdle
    /\ active_alerts = <<>>
    /\ alert_config = [allow_output_annotation |-> FALSE,
                       realert_interval |-> RealertInterval]
    /\ updates = <<>>
    /\ senders = Cardinality(Tasks) + 1
    /\ nsent = 0
    /\ pc = "done"
    /\ cur = None
    /\ interval = 0
    /\ now = 0
    /\ posts = <<>>
    /\ handled = <<>>
    /\ run_mode = "report"
    /\ TasksReady
    /\ names = [t \in Tasks |-> registry[t].name]
    /\ printed = <<>>
    /\ ppc = "unspawned"
    /\ mpc = "drop_tx"
    /\ failures = 0
    /\ result = None

NextReport ==
    \/ main_drop_tx
    \/ main_spawn
    \/ \E t \in Tasks : run_check_start(t)
    \/ \E t \in Tasks : probe_done(t)
    \/ \E t \in Tasks : backoff_wake(t)
    \/ print_verbose_recv
    \/ print_verbose_end
    \/ main_join

SpecReport == InitReport /\ [][NextReport]_vars

\* the retries the policies of one run allow in all, where the run is
\* followed to its end under fairness
FairRetries == 1

\* the sum of max_retries over the checks of ts
RECURSIVE RetriesOf(_)
RetriesOf(ts) ==
    IF ts = {} THEN 0
    ELSE LET t == CHOOSE x \in ts : TRUE
         IN  checks[t].policy.max_retries + RetriesOf(ts \ {t})

\* report mode with policies that allow FairRetries retries in all
InitFairReport == InitReport /\ RetriesOf(Tasks) <= FairRetries

\* the runtime runs the spawned printer, and main, whenever they can go on
FairReport ==
    /\ InitFairReport
    /\ [][NextReport]_vars
    /\ WF_vars(print_verbose_recv)
    /\ WF_vars(print_verbose_end)
    /\ WF_vars(main_join)

\* the timeout ends every probe invocation, every sleep ends, and the runtime
\* runs each task, the printer and main whenever they can go on
FairTasks ==
    /\ InitFairReport
    /\ [][NextReport]_vars
    /\ \A t \in Tasks : WF_vars(run_check_start(t))
    /\ \A t \in Tasks : WF_vars(probe_done(t))
    /\ \A t \in Tasks : WF_vars(backoff_wake(t))
    /\ WF_vars(main_drop_tx)
    /\ WF_vars(main_spawn)
    /\ WF_vars(print_verbose_recv)
    /\ WF_vars(print_verbose_end)
    /\ WF_vars(main_join)

\* ------------------------------------------------------ report mode: claims
\* the last element of a non-empty sequence
Last(q) == q[Len(q)]

\* the updates t has sent with this status
Sent(t, status) == {k \in DOMAIN emitted[t] : emitted[t][k].status = status}

\* the probe invocations of t so far, the one under way included
Invocations(t) == Len(probes[t]) + (IF task[t].pc = "probing" THEN 1 ELSE 0)

\* no probe invocation of t has succeeded
AllFailed(t) == \A k \in DOMAIN probes[t] : probes[t][k] # "ok"

\* C11: a report-mode task whose probe fails every time (by error or by
\* timeout) invokes it max_retries + 1 times and no more, then ends with
\* Failure, its last update being Failed "Maximum retries reached"; it sends
\* no Failed before that and no Succeeded at all.
C11_AllFail ==
    \A t \in Tasks :
        AllFailed(t) =>
            /\ Invocations(t) <= checks[t].policy.max_retries + 1
            /\ Sent(t, "Succeeded") = {}
            /\ task[t].pc = "done" <=> Len(probes[t]) = checks[t].policy.max_retries + 1
            /\ task[t].pc = "done" =>
                  /\ task[t].outcome = Some("Failure")
                  /\ Last(emitted[t]) = Update(t, "Failed", Some("Maximum retries reached"))
                  /\ Cardinality(Sent(t, "Failed")) = 1
            /\ task[t].pc # "done" => Sent(t, "Failed") = {} /\ task[t].outcome = None

C11_Witness ==
    /\ checks[1].policy.max_retries = MaxTaskRetries
    /\ task[1].pc = "done"
    /\ Len(probes[1]) = MaxTaskRetries + 1
    /\ AllFailed(1)
    /\ \E k \in DOMAIN probes[1] : probes[1][k] = "timeout"
    /\ \E k \in DOMAIN probes[1] : probes[1][k] = "status"

\* the terminal statuses
Terminal == {"Succeeded", "Failed"}

\* C12: the first probe invocation that succeeds ends the task: it sends
\* Succeeded, its outcome is Success and the probe is not invoked again. A task
\* sends one terminal status (Succeeded or Failed) and no more, when it ends;
\* it is the last update the task sends, and the outcome is Success exactly
\* when it is Succeeded.
C12_FirstSuccessEnds ==
    /\ [](\A t \in Tasks :
            /\ Cardinality(Sent(t, "Succeeded") \cup Sent(t, "Failed"))
                 = (IF task[t].pc = "done" THEN 1 ELSE 0)
            /\ task[t].pc = "done" <=> task[t].outcome # None
            /\ task[t].pc = "done" =>
                  /\ Last(emitted[t]).status \in Terminal
                  /\ task[t].outcome = Some("Success") <=> Last(emitted[t]).status = "Succeeded"
                  /\ task[t].outcome = Some("Failure") <=> Last(emitted[t]).status = "Failed"
            /\ \A k \in DOMAIN probes[t] :
                  probes[t][k] = "ok" =>
                      /\ k = Len(probes[t])
                      /\ task[t].outcome = Some("Success")
                      /\ Last(emitted[t]) = Update(t, "Succeeded", None))
    /\ [][\A t \in Tasks :
            task[t].pc = "done" =>
                /\ emitted'[t] = emitted[t]
                /\ probes'[t] = probes[t]
                /\ task'[t] = task[t]]_vars

C12_Witness ==
    /\ probes[2] = <<"err", "ok">>
    /\ task[2].outcome = Some("Success")
    /\ probes[1] = <<"ok">>
    /\ task[1].pc = "done"
    /\ updates = <<>>
    /\ ppc = "ended"

\* the tasks that ended with Failure
FailedTasks == {t \in Tasks : task[t].outcome = Some("Failure")}

\* C13: the count of failures is the number of tasks that ended with Failure,
\* in whatever order the tasks ended; the run's result is an error exactly
\* when the count is above zero, and the error's text carries the count.
C13_FailureCount ==
    /\ failures = Cardinality(FailedTasks)
    /\ result # None =>
          /\ \A t \in Tasks : task[t].pc = "done"
          /\ result[1].ok <=> failures = 0
          /\ ~result[1].ok => result[1].text = <<Cardinality(FailedTasks), " check(s) failed">>

\* a run that ends in error with one failure, the failed task having ended
\* after the one that succeeded
C13_Witness ==
    /\ result = Some([ok |-> FALSE, text |-> <<1, " check(s) failed">>])
    /\ FailedTasks = {1}
    /\ \E i, j \in DOMAIN handled :
          /\ i < j
          /\ handled[i] = Update(2, "Succeeded", None)
          /\ handled[j].id = 1 /\ handled[j].status = "Failed"

\* the updates of q that carry the id t, in q's order
OfTask(q, t) == LET Mine(u) == u.id = t IN SelectSeq(q, Mine)

\* C14: under every interleaving of the tasks and the Reporter, the updates of
\* one task reach the consumer in the order the task sent them, none lost and
\* none twice: what the Reporter has received of a task, followed by what is
\* still queued of it, is what the task has sent; and the Reporter prints each
\* update it receives, in that order.
C14_PerTaskFifo ==
    /\ \A t \in Tasks : OfTask(handled \o updates, t) = emitted[t]
    /\ \A k \in DOMAIN (handled \o updates) : (handled \o updates)[k].id \in Tasks
    /\ Len(printed) = Len(handled)
    /\ \A k \in DOMAIN handled :
          /\ printed[k].name = registry[handled[k].id].name
          /\ printed[k].status = handled[k].status
          /\ printed[k].lines = handled[k].msg

\* the Reporter has received updates of the two tasks in turn, with more of
\* task 1 still queued
C14_Witness ==
    /\ \E i, j, k \in DOMAIN handled :
          /\ i < j /\ j < k
          /\ handled[i].id = 1 /\ handled[j].id = 2 /\ handled[k].id = 1
    /\ OfTask(updates, 1) # <<>>
    /\ OfTask(updates, 2) # <<>>
    /\ Len(emitted[1]) >= 5

\* the producer handles that have not been dropped: main's owning handle
\* and one per task that has not ended
LiveHandles ==
    (IF mpc = "drop_tx" THEN 1 ELSE 0) + Cardinality({t \in Tasks : task[t].pc # "done"})

\* C15: the channel is closed only when main's owning handle and every task's
\* handle have been dropped; the Reporter's receive loop ends only when the
\* channel is closed and drained, and then it does end: once all tasks have
\* ended the Reporter ends, having received every update.
C15_ReporterEnds ==
    /\ [](senders = LiveHandles)
    /\ [](ppc = "ended" => senders = 0 /\ updates = <<>>)
    /\ [][ppc = "recv" /\ ppc' = "ended" => senders = 0 /\ updates = <<>>]_vars
    /\ (senders = 0 /\ updates = <<>> /\ ppc = "recv") ~> (ppc = "ended")
    /\ (\A t \in Tasks : task[t].pc = "done") ~> (ppc = "ended" /\ updates = <<>>)

\* the Reporter ended after the last task, with updates left to print when
\* the channel closed
C15_Witness ==
    /\ ppc = "ended"
    /\ \A t \in Tasks : task[t].pc = "done"
    /\ Len(handled) >= 6
    /\ mpc = "join_printer"

\* ------------------------------------------- the consumers and unknown ids
\* the Reporter alone on the channel, its producers being any senders of
\* updates
InitReporter ==
    /\ RetrierIdle
    /\ SelectIdle
    /\ ConfigIdle
    /\ active_alerts = <<>>
    /\ alert_config = [allow_output_annotation |-> FALSE,
                       realert_interval |-> RealertInterval]
    /\ updates = <<>>
    /\ senders = Cardinality(Handles)
    /\ nsent = 0
    /\ pc = "done"
    /\ cur = None
    /\ interval = 0
    /\ now = 0
    /\ posts = <<>>
    /\ handled = <<>>
    /\ run_mode = "none"
    /\ checks = <<>>
    /\ task = <<>>
    /\ emitted = <<>>
    /\ probes = <<>>
    /\ names = [t \in DOMAIN registry |-> registry[t].name]
    /\ printed = <<>>
    /\ ppc = "recv"
    /\ mpc = "unused"
    /\ failures = 0
    /\ result = None

\* the channel's consumer is the dispatcher (alert mode) or the Reporter
\* (report mode)
InitConsumers == InitDispatcher \/ InitReporter

NextConsumers ==
    \/ NextDispatcher
    \/ print_verbose_recv
    \/ print_verbose_end

SpecConsumers == InitConsumers /\ [][NextConsumers]_vars

\* this step takes from the channel an update whose id the registry lacks
ReceivedUnknown == Received /\ Head(updates).id \notin DOMAIN registry

\* C16: an update whose id is not in the registry does not stop its consumer.
\* The dispatcher, for a Failed update with such an id, inserts no alert,
\* issues no POST and goes on receiving; the Reporter prints the update under
\* the name "unknown check" and goes on receiving. Either consumer ends only
\* when the channel is closed and drained.
C16_UnknownId ==
    /\ [][(ReceivedUnknown /\ pc = "select") =>
            /\ Head(updates).status = "Failed"
            /\ active_alerts' = active_alerts
            /\ posts' = posts
            /\ pc' = "select"]_vars
    /\ [][(ReceivedUnknown /\ ppc = "recv") =>
            /\ printed' = Append(printed, [name |-> "unknown check",
                                           status |-> Head(updates).status,
                                           lines |-> Head(updates).msg])
            /\ ppc' = "recv"]_vars
    /\ [][(pc = "select" /\ pc' = "post_final") \/ (ppc = "recv" /\ ppc' = "ended") =>
            senders = 0 /\ updates = <<>>]_vars

\* the Reporter has printed an update of an unknown id and then one of a
\* registered check
C16_Witness ==
    /\ Len(printed) = 2
    /\ printed[1] = [name |-> "unknown check", status |-> "Failed", lines |-> Some("boom")]
    /\ printed[2].name = "web"
    /\ handled[1].id = 3

\* the dispatcher has passed over an update of an unknown id and then raised
\* the alert of a registered check
C16_DispatcherCase ==
    /\ Len(handled) = 2
    /\ handled[1] = [id |-> 3, status |-> "Failed", msg |-> Some("boom")]
    /\ handled[2].status = "Failed"
    /\ DOMAIN active_alerts = {handled[2].id}
    /\ Len(posts) = 1

\* ------------------------------------------------------------- alert mode
\* run_alerts: every check runs run_check_for_alerts, for ever
InitAlert ==
    /\ RetrierIdle
    /\ SelectIdle
    /\ ConfigIdle
    /\ DispatcherIdle
    /\ run_mode = "alert"
    /\ TasksReady
    /\ names = <<>>
    /\ printed = <<>>
    /\ ppc = "unused"
    /\ mpc = "unused"
    /\ failures = 0
    /\ result = None

NextAlert ==
    \/ \E t \in Tasks : run_check_start(t)
    \/ \E t \in Tasks : probe_done(t)
    \/ \E t \in Tasks : backoff_wake(t)

SpecAlert == InitAlert /\ [][NextAlert]_vars

\* alert mode with policies that allow FairRetries retries in all
InitFairAlert == InitAlert /\ RetriesOf(Tasks) <= FairRetries

\* every probe invocation returns or times out, every sleep ends, and the
\* runtime runs each task that can go on
FairAlert ==
    /\ InitFairAlert
    /\ [][NextAlert]_vars
    /\ \A t \in Tasks : WF_vars(run_check_start(t))
    /\ \A t \in Tasks : WF_vars(probe_done(t))
    /\ \A t \in Tasks : WF_vars(backoff_wake(t))

\* --------------------------------------------------------- alert mode: claims
\* C17: an alert-mode task never ends and never gives up: it has no outcome,
\* and whenever it is not in a probe invocation (an attempt is over, whatever
\* its result) it gets to invoke the probe again, given that every invocation
\* returns or times out.
C17_NeverGivesUp ==
    /\ [](\A t \in Tasks : task[t].pc # "done" /\ task[t].outcome = None)
    /\ \A t \in Tasks : task[t].pc # "probing" ~> task[t].pc = "probing"
    /\ \A t \in Tasks : task[t].pc = "probing" ~> task[t].pc # "probing"

\* task 2 probes again after a retry cycle that failed
C17_Witness ==
    /\ task[2].pc = "probing"
    /\ emitted[2] = <<Update(2, "Failed", Some("Maximum retries reached")),
                      Waiting(2, checks[2].recheck_interval, "recheck"),
                      Update(2, "Running", None)>>
    /\ checks[2].policy.max_retries = 1

\* this step ends a probe invocation of t in failure
ProbeFailed(t) ==
    /\ task[t].pc = "probing"
    /\ task'[t].pc # "probing"
    /\ Last(probes'[t]) # "ok"

\* the last update t has sent is Waiting(recheck_interval, "recheck") and t
\* sleeps recheck_interval
Rechecking(t) ==
    /\ Last(emitted[t]) = Waiting(t, checks[t].recheck_interval, "recheck")
    /\ task[t].pc = "recheck"
    /\ task[t].wait = Some(checks[t].recheck_interval)

\* C18 as stated: every failed probe invocation is followed by
\* Waiting(recheck_interval, "recheck") and a sleep of recheck_interval.
C18_AsStated ==
    [][\A t \in Tasks : ProbeFailed(t) => Rechecking(t)']_vars

\* C18 amended: a failed probe invocation is followed by
\* Waiting(recheck_interval, "recheck") and a sleep of exactly recheck_interval
\* when it is the last of its retry cycle, that is when max_retries retries of
\* the cycle have been made: the task then sends Retrying, Failed and that
\* Waiting. An earlier failure of the cycle is followed by Retrying and the
\* Retrier's wait (the policy's initial, then the wait before it times the
\* multiplier), whatever recheck_interval is. After the recheck
\* sleep the task invokes the probe again, with a fresh Retrier; max_retries
\* bounds a cycle and not the number of cycles, and the task never ends.
C18_RecheckAfterCycle ==
    /\ [][\A t \in Tasks :
            ProbeFailed(t) =>
                IF task[t].retrier.attempts >= checks[t].policy.max_retries
                THEN /\ Rechecking(t)'
                     /\ emitted'[t][Len(emitted'[t]) - 1]
                          = Update(t, "Failed", Some("Maximum retries reached"))
                     /\ emitted'[t][Len(emitted'[t]) - 2].status = "Retrying"
                ELSE /\ task'[t].pc = "backoff"
                     /\ Last(emitted'[t]).status = "Retrying"
                     /\ task[t].retrier.attempts = 0 =>
                            task'[t].wait = Some(checks[t].policy.initial)
                     /\ task[t].retrier.attempts > 0 =>
                            task'[t].wait = Some(mul_f64(task[t].retrier.last[1],
                                                         checks[t].policy.multiplier, rounding))]_vars
    /\ [][\A t \in Tasks :
            (task[t].pc = "recheck" /\ task'[t] # task[t]) =>
                /\ task'[t].pc = "probing"
                /\ task'[t].retrier = Retrier_new(checks[t].policy)
                /\ \E k \in DOMAIN emitted'[t] : emitted'[t][k] = Update(t, "Running", None)]_vars
    /\ [](\A t \in Tasks : task[t].pc # "done")

\* task 2, with one retry allowed, has failed twice in a row and waits for
\* its recheck, and this is not its first cycle
C18_Witness ==
    /\ checks[2].policy.max_retries = 1
    /\ task[2].pc = "recheck"
    /\ task[2].wait = Some(checks[2].recheck_interval)
    /\ probes[2] = <<"err", "err", "err">>
    /\ emitted[2] = <<Update(2, "Retrying", Some("boom")),
                      Update(2, "Failed", Some("Maximum retries reached")),
                      Waiting(2, checks[2].recheck_interval, "recheck")>>

\* this step ends a probe invocation of t in success
ProbeSucceeded(t) ==
    /\ task[t].pc = "probing"
    /\ task'[t].pc # "probing"
    /\ Last(probes'[t]) = "ok"

\* C19: when a probe invocation succeeds the task sends Succeeded, then
\* Waiting(check_interval, "next check"), and sleeps check_interval; after the
\* sleep it is at the head of its outer loop, with a fresh Retrier, Running and
\* a new probe invocation. Nothing comes between Succeeded and that Waiting,
\* and only Running comes after that Waiting: no Waiting(.., "recheck")
\* between a Succeeded and the next Running.
C19_HealthyCadence ==
    /\ [][\A t \in Tasks :
            ProbeSucceeded(t) =>
                /\ Last(emitted'[t]) = Waiting(t, checks[t].check_interval, "next check")
                /\ emitted'[t][Len(emitted'[t]) - 1] = Update(t, "Succeeded", None)
                /\ task'[t].pc = "next_check"
                /\ task'[t].wait = Some(checks[t].check_interval)]_vars
    /\ [][\A t \in Tasks :
            (task[t].pc = "next_check" /\ task'[t] # task[t]) =>
                /\ task'[t].pc = "probing"
                /\ task'[t].retrier = Retrier_new(checks[t].policy)
                /\ \E k \in DOMAIN emitted'[t] : emitted'[t][k] = Update(t, "Running", None)]_vars
    /\ [](\A t \in Tasks : \A k \in DOMAIN emitted[t] :
            emitted[t][k].status = "Succeeded" =>
                /\ k + 1 <= Len(emitted[t]) =>
                      emitted[t][k + 1] = Waiting(t, checks[t].check_interval, "next check")
                /\ k + 2 <= Len(emitted[t]) =>
                      emitted[t][k + 2] = Update(t, "Running", None))

\* task 2 has succeeded, waited for its next check and probes again
C19_Witness ==
    /\ task[2].pc = "probing"
    /\ emitted[2] = <<Update(2, "Succeeded", None),
                      Waiting(2, checks[2].check_interval, "next check"),
                      Update(2, "Running", None)>>
    /\ probes[2] = <<"err", "ok">>

\* ----------------------------------------------------------- label selector
\* the longest text a selection term is drawn with
MaxText == 5

\* a &str is the sequence of its characters
Chars == {"a", "b", ":", ",", "/"}

\* char::is_alphanumeric, on Chars and the hyphen
Alnum == {"a", "b"}

\* the texts of at most n characters
Texts(n) == UNION {[1..k -> Chars] : k \in 0..n}

\* &i[n..]
Drop(i, n) == SubSeq(i, n + 1, Len(i))

\* the length of the longest prefix of i whose characters are all in cs
RECURSIVE SpanLen(_, _)
SpanLen(i, cs) ==
    IF i # <<>> /\ Head(i) \in cs THEN 1 + SpanLen(Tail(i), cs) ELSE 0

\* the length of the longest prefix of i that has no character of cs
RECURSIVE SpanUntil(_, _)
SpanUntil(i, cs) ==
    IF i # <<>> /\ Head(i) \notin cs THEN 1 + SpanUntil(Tail(i), cs) ELSE 0

\* an IResult: Ok((rest, out)) or Err
Ok(rest, out) == [ok |-> TRUE, rest |-> rest, out |-> out]
Err == [ok |-> FALSE, rest |-> <<>>, out |-> <<>>]

\* (mutant) the groups with hyphens taken even when no alphanumeric follows
RECURSIVE NameGroups_trailing(_)
NameGroups_trailing(i) ==
    LET h == SpanLen(i, {"-"})
        a == SpanLen(Drop(i, h), Alnum)
    IN  IF a = 0 THEN h ELSE h + a + NameGroups_trailing(Drop(i, h + a))

\* many0(tuple((take_while(|c| c == '-'), alphanumeric1))): the characters
\* the groups take from i
RECURSIVE NameGroups(_)
NameGroups(i) ==
    LET h == SpanLen(i, {"-"})
        a == SpanLen(Drop(i, h), Alnum)
    IN  IF a = 0 THEN 0 ELSE h + a + NameGroups(Drop(i, h + a))

\* label_name
label_name(i) ==
    LET a == SpanLen(i, Alnum)
    IN  IF a = 0 THEN Err
        ELSE LET n == a + NameGroups(Drop(i, a))
             IN  Ok(Drop(i, n), SubSeq(i, 1, n))

\* value_item
value_item(i) ==
    LET n == SpanUntil(i, {",", " ", "\t"})
    IN  IF n = 0 THEN Err ELSE Ok(Drop(i, n), SubSeq(i, 1, n))

\* separated_list1(tag(","), value_item) after its first item: the items
\* taken so far and the rest
RECURSIVE MoreItems(_, _)
MoreItems(i, items) ==
    IF i # <<>> /\ Head(i) = "," /\ value_item(Tail(i)).ok
    THEN MoreItems(value_item(Tail(i)).rest, Append(items, value_item(Tail(i)).out))
    ELSE Ok(i, items)

\* list_value
list_value(i) ==
    IF value_item(i).ok
    THEN LET r == MoreItems(value_item(i).rest, <<value_item(i).out>>)
         IN  Ok(r.rest, [kind |-> "list", list |-> r.out])
    ELSE Err

\* regex_value: delimited(tag("/"), is_not("/"), tag("/")). The characters
\* of Chars stand for themselves in a regex, so Regex::new takes every pattern
\* and the Regex is kept as its pattern.
regex_value(i) ==
    IF i # <<>> /\ Head(i) = "/"
    THEN LET n == SpanUntil(Tail(i), {"/"})
         IN  IF n > 0 /\ Len(i) >= n + 2
             THEN Ok(Drop(i, n + 2), [kind |-> "regex", regex |-> SubSeq(i, 2, n + 1)])
             ELSE Err
    ELSE Err

\* label_value: alt((regex_value, list_value))
label_value(i) == IF regex_value(i).ok THEN regex_value(i) ELSE list_value(i)

\* term: tuple((label_name, tag(":"), label_value))
term(i) ==
    LET n == label_name(i)
    IN  IF n.ok /\ n.rest # <<>> /\ Head(n.rest) = ":" /\ label_value(Tail(n.rest)).ok
        THEN Ok(label_value(Tail(n.rest)).rest,
                [name |-> n.out, matcher |-> label_value(Tail(n.rest)).out])
        ELSE Err

\* (mutant) a list matcher that takes a value its item starts with
ListMatcher_matches_prefix(list, label_value_) ==
    \E k \in DOMAIN list :
        /\ Len(label_value_) <= Len(list[k])
        /\ SubSeq(list[k], 1, Len(label_value_)) = label_value_

\* ListMatcher::matches
ListMatcher_matches(list, label_value_) ==
    \E k \in DOMAIN list : list[k] = label_value_

\* RegexMatcher::matches: Regex::is_match finds the pattern anywhere in the
\* value
RegexMatcher_matches(regex, label_value_) ==
    \E k \in 0..(Len(label_value_) - Len(regex)) :
        SubSeq(label_value_, k + 1, k + Len(regex)) = regex

\* Term::matches
Term_matches(t, labels) ==
    IF t.name \notin DOMAIN labels THEN FALSE
    ELSE IF t.matcher.kind = "list"
    THEN ListMatcher_matches(t.matcher.list, labels[t.name])
    ELSE RegexMatcher_matches(t.matcher.regex, labels[t.name])

\* the label maps a term is tried on: the keys a and b, each absent or with
\* one of three values
LabelKeys == {<<"a">>, <<"b">>}
LabelValues == {<<"a">>, <<"a", "a">>, <<"b">>}
LabelMaps == UNION {[ks -> LabelValues] : ks \in SUBSET LabelKeys}

InitSelect ==
    /\ RetrierIdle
    /\ DispatcherIdle
    /\ TasksIdle
    /\ ConfigIdle
    /\ sel_text \in Texts(MaxText)
    /\ sel_labels \in LabelMaps
    /\ sel_term = None
    /\ sel_selected = None

\* Term::from_str: the term parsed off the head of the text, what is left of
\* the text dropped
Term_from_str ==
    /\ sel_term = None
    /\ sel_term' = Some([ok |-> term(sel_text).ok, term |-> term(sel_text).out])
    /\ UNCHANGED <<dvars, rvars, tvars, cvars, sel_text, sel_labels, sel_selected>>

\* Term::matches of the parsed term on the label map
select ==
    /\ sel_term # None
    /\ sel_term[1].ok
    /\ sel_selected = None
    /\ sel_selected' = Some(Term_matches(sel_term[1].term, sel_labels))
    /\ UNCHANGED <<dvars, rvars, tvars, cvars, sel_text, sel_labels, sel_term>>

NextSelect ==
    \/ Term_from_str
    \/ select

SpecSelect == InitSelect /\ [][NextSelect]_vars

\* ---------------------------------------------------- label selector: claims
\* the items written one after the other with commas between them
RECURSIVE Joined(_)
Joined(items) ==
    IF Len(items) = 1 THEN items[1]
    ELSE items[1] \o <<",">> \o Joined(Tail(items))

\* p is the head of the text i
StartsWith(i, p) == Len(p) <= Len(i) /\ SubSeq(i, 1, Len(p)) = p

\* C20: a term parsed from name:matcher selects a label map exactly when the
\* map has the key name and the matcher accepts the value under it; with the
\* key missing the answer is false, an answer all the same. A list matcher,
\* parsed from items with commas between them, accepts a value exactly when
\* the value equals one of the items: a value that is the head of an item, or
\* that an item is the head of, is not accepted unless it equals an item.
C20_TermSelects ==
    sel_selected # None =>
        LET t == sel_term[1].term
            has == t.name \in DOMAIN sel_labels
        IN  /\ sel_selected[1] \in BOOLEAN
            /\ ~has => sel_selected[1] = FALSE
            /\ t.matcher.kind = "list" =>
                  /\ StartsWith(sel_text, t.name \o <<":">> \o Joined(t.matcher.list))
                  /\ \A k \in DOMAIN t.matcher.list :
                        t.matcher.list[k] # <<>> /\ \A j \in DOMAIN t.matcher.list[k] :
                                                        t.matcher.list[k][j] # ","
                  /\ sel_selected[1] <=>
                        (has /\ sel_labels[t.name] \in
                                  {t.matcher.list[k] : k \in DOMAIN t.matcher.list})
            /\ t.matcher.kind = "regex" =>
                  /\ StartsWith(sel_text, t.name \o <<":", "/">> \o t.matcher.regex \o <<"/">>)
                  /\ sel_selected[1] <=>
                        (has /\ \E k \in DOMAIN sel_labels[t.name] :
                                   StartsWith(Drop(sel_labels[t.name], k - 1), t.matcher.regex))

\* the term a:b,a tried on a map whose a is the value aa: an item is the head
\* of the value and none equals it, and the map is not selected
C20_Witness ==
    /\ sel_text = <<"a", ":", "b", ",", "a">>
    /\ sel_labels = (<<"a">> :> <<"a", "a">>)
    /\ sel_selected = Some(FALSE)
    /\ sel_term[1].term.matcher = [kind |-> "list", list |-> <<(<<"b">>), (<<"a">>)>>]

\* ----------------------------------------------------------- label names
\* the longest text label_name is drawn with
MaxName == 4

\* the characters of the texts label_name is tried on
NameChars == {"a", "b", "-", ":"}

\* the texts label_name is tried on
NameTexts == UNION {[1..k -> NameChars] : k \in 0..MaxName}

InitLabelName ==
    /\ RetrierIdle
    /\ DispatcherIdle
    /\ TasksIdle
    /\ ConfigIdle
    /\ sel_text \in NameTexts
    /\ sel_labels = <<>>
    /\ sel_term = None
    /\ sel_selected = None

\* label_name(i)
parse_label_name ==
    /\ sel_term = None
    /\ sel_term' = Some(label_name(sel_text))
    /\ UNCHANGED <<dvars, rvars, tvars, cvars, sel_text, sel_labels, sel_selected>>

\* all_consuming(label_name)(i): is_ok()
parse_all_consuming ==
    /\ sel_selected = None
    /\ sel_selected' = Some(label_name(sel_text).ok /\ label_name(sel_text).rest = <<>>)
    /\ UNCHANGED <<dvars, rvars, tvars, cvars, sel_text, sel_labels, sel_term>>

NextLabelName ==
    \/ parse_label_name
    \/ parse_all_consuming

SpecLabelName == InitLabelName /\ [][NextLabelName]_vars

\* p is of the form alphanumerics, then groups of hyphens and alphanumerics:
\* alphanumerics and hyphens only, an alphanumeric first and last
ValidName(p) ==
    /\ p # <<>>
    /\ \A k \in DOMAIN p : p[k] \in Alnum \cup {"-"}
    /\ p[1] \in Alnum
    /\ p[Len(p)] \in Alnum

\* the lengths of the heads of i that are of that form
NameHeads(i) == {k \in 1..Len(i) : ValidName(SubSeq(i, 1, k))}

\* C21: label_name takes the longest head of its input that is alphanumerics
\* followed by groups of hyphens then alphanumerics, and fails when there is
\* none: on the empty text and on a text that starts with a hyphen. A hyphen
\* at the end is never part of the name, so a parse of the whole input passes
\* exactly on the texts of that form.
C21_LabelName ==
    /\ sel_term # None =>
          /\ sel_term[1].ok <=> NameHeads(sel_text) # {}
          /\ (sel_text = <<>> \/ Head(sel_text) = "-") => ~sel_term[1].ok
          /\ sel_term[1].ok =>
                /\ sel_term[1].out \o sel_term[1].rest = sel_text
                /\ Len(sel_term[1].out) \in NameHeads(sel_text)
                /\ \A k \in NameHeads(sel_text) : k <= Len(sel_term[1].out)
                /\ sel_term[1].out[Len(sel_term[1].out)] # "-"
    /\ sel_selected # None => (sel_selected[1] <=> ValidName(sel_text))

\* a--b is taken whole
C21_Witness ==
    /\ sel_text = <<"a", "-", "-", "b">>
    /\ sel_term = Some(Ok(<<>>, sel_text))
    /\ sel_selected = Some(TRUE)

\* of ab- the name is ab, and the parse of the whole input fails
C21_TrailingHyphen ==
    /\ sel_text = <<"a", "b", "-">>
    /\ sel_term = Some(Ok(<<"-">>, <<"a", "b">>))
    /\ sel_selected = Some(FALSE)

\* ------------------------------------------------- check task order: claims
\* what t sends in this step
NewlySent(t) == SubSeq(emitted'[t], Len(emitted[t]) + 1, Len(emitted'[t]))

\* the positions of q that hold an update with this status
Holding(q, status) == {k \in DOMAIN q : q[k].status = status}

\* the probe invocations of t that have failed, in order
Failures(t) == LET Bad(o) == o # "ok" IN SelectSeq(probes[t], Bad)

\* the Retrying updates of t, in order
Retryings(t) == LET Is(u) == u.status = "Retrying" IN SelectSeq(emitted[t], Is)

\* C22: within a retry cycle, run_check sends Running right before it invokes
\* the probe, once per invocation; each failed invocation is followed by one
\* Retrying, which carries the description of that failure and is sent before
\* Retrier.retry() is called: before the backoff wait starts, and before
\* Failed when the Retrier is exhausted.
C22_CycleOrder ==
    /\ [][\A t \in Tasks :
            (task[t].pc # "probing" /\ task'[t].pc = "probing") =>
                /\ NewlySent(t) # <<>>
                /\ Head(NewlySent(t)) = Update(t, "Running", None)]_vars
    /\ [][\A t \in Tasks :
            ProbeFailed(t) =>
                /\ Cardinality(Holding(NewlySent(t), "Retrying")) = 1
                /\ \A k \in Holding(NewlySent(t), "Retrying") :
                      /\ NewlySent(t)[k].msg = Some(ErrorText(Last(probes'[t])))
                      /\ \A j \in Holding(NewlySent(t), "Failed") : k < j
                /\ Holding(NewlySent(t), "Running") \subseteq
                      {k \in DOMAIN NewlySent(t) : NewlySent(t)[k].msg # None}
                /\ task'[t].pc \in {"backoff", "done"}
                /\ task'[t].retrier = task[t].retrier]_vars
    /\ [](\A t \in Tasks :
            /\ Cardinality({k \in DOMAIN emitted[t] :
                              emitted[t][k] = Update(t, "Running", None)}) = Invocations(t)
            /\ Len(Retryings(t)) = Len(Failures(t))
            /\ \A k \in DOMAIN Retryings(t) :
                  Retryings(t)[k].msg = Some(ErrorText(Failures(t)[k]))
            /\ \A k \in Holding(emitted[t], "Failed") :
                  k > 1 /\ emitted[t][k - 1].status = "Retrying")

\* task 2 has failed twice, with one retry allowed
C22_Witness ==
    /\ emitted[2] = <<Update(2, "Running", None),
                      Update(2, "Retrying", Some("boom")),
                      Update(2, "Running", None),
                      Update(2, "Retrying", Some("boom")),
                      Update(2, "Failed", Some("Maximum retries reached"))>>
    /\ task[2].pc = "done"
    /\ \E k \in DOMAIN emitted[1] : emitted[1][k] = Update(1, "Retrying", Some("Check timed out"))

\* this step ends a probe invocation of t by its timeout
ProbeTimedOut(t) == ProbeFailed(t) /\ Last(probes'[t]) = "timeout"

\* C23: the timeout is around each probe invocation by itself. An invocation
\* that runs into it is over, and run_check goes on as after an error of the
\* probe: Retrying with the failure, then Retrier.retry(), which sleeps and
\* counts one retry, or is exhausted and gives Failed. So the invocations of a
\* cycle stay within max_retries + 1 also when they time out, and a
\* report-mode task ends whatever its probe does.
C23_TimeoutPerAttempt ==
    /\ [][\A t \in Tasks :
            ProbeTimedOut(t) =>
                /\ NewlySent(t)[1] = Update(t, "Retrying", Some("Check timed out"))
                /\ IF task[t].retrier.attempts >= checks[t].policy.max_retries
                   THEN /\ task'[t].pc = "done"
                        /\ task'[t].outcome = Some("Failure")
                        /\ NewlySent(t)[2] = Update(t, "Failed", Some("Maximum retries reached"))
                        /\ Len(NewlySent(t)) = 2
                   ELSE /\ task'[t].pc = "backoff"
                        /\ task'[t].wait # None
                        /\ Len(NewlySent(t)) = 1]_vars
    /\ [][\A t \in Tasks :
            (task[t].pc = "backoff" /\ task'[t].pc = "probing") =>
                task'[t].retrier.attempts = task[t].retrier.attempts + 1]_vars
    /\ [](\A t \in Tasks :
            /\ Invocations(t) <= checks[t].policy.max_retries + 1
            /\ task[t].retrier.attempts = Len(probes[t]) - (IF task[t].pc \in {"backoff", "done"}
                                                           THEN 1 ELSE 0))
    /\ \A t \in Tasks : task[t].pc = "probing" ~> task[t].pc # "probing"
    /\ <>(\A t \in Tasks : task[t].pc = "done")

\* task 1 has ended after its probe ran into the timeout twice, one retry
\* being allowed
C23_Witness ==
    /\ probes[1] = <<"timeout", "timeout">>
    /\ checks[1].policy.max_retries = 1
    /\ task[1].pc = "done"
    /\ task[1].outcome = Some("Failure")
    /\ task[1].retrier.attempts = 1

\* ------------------------------------------- alert dispatcher: more claims
\* this step is run's interval.tick() branch
TickTaken == pc = "select" /\ interval' # interval

\* the POSTs issued by the tick branch
TickPosts == {k \in DOMAIN posts : posts[k].by = "tick"}

\* C24: ticks missed while the dispatcher is busy are dropped. Whatever the
\* number of realert intervals that went by, the tick taken when run waits
\* again puts the next deadline after the present time, within one interval of
\* it and on the grid of the interval, so no second tick is due and one POST
\* at most is issued for the busy period; nothing else moves the deadline.
C24_TicksSkipped ==
    /\ [][TickTaken =>
            /\ now >= interval
            /\ interval' > now
            /\ interval' <= now + alert_config.realert_interval
            /\ (interval' - interval) % alert_config.realert_interval = 0
            /\ Len(posts') <= Len(posts) + 1]_vars
    /\ [][interval' # interval => pc = "select" /\ now' = now]_vars

\* an alert raised at time 0 and a dispatcher that was busy until MaxTime:
\* the ticks in between were due, and one tick POST was made
C24_Witness ==
    /\ now = MaxTime
    /\ interval > now
    /\ pc = "select"
    /\ \E i \in DOMAIN active_alerts : active_alerts[i].starts_at = Some(0)
    /\ Cardinality(TickPosts) = 1
    /\ MaxTime >= 2 * alert_config.realert_interval

\* ---------------------------------------------------- alert mode: more claims
\* this step is a call of run_check by t
CycleStarts(t) ==
    /\ task[t].pc \in {"ready", "recheck", "next_check"}
    /\ task'[t].pc = "probing"

\* C25: every call of run_check (the first, and each one run_check_for_alerts
\* makes after a recheck or a next-check sleep) starts with a Retrier that has
\* made no attempt and no wait: the retries used and the wait grown in one
\* cycle are gone in the next, whose first wait is the policy's initial again
\* and whose retries are max_retries again. A step of one task leaves the
\* Retrier of every other task alone.
C25_FreshRetrier ==
    /\ [][\A t \in Tasks :
            CycleStarts(t) =>
                /\ task'[t].retrier.attempts = 0
                /\ task'[t].retrier.last = None
                /\ task'[t].retrier.policy = checks[t].policy]_vars
    /\ [][\A t \in Tasks :
            (ProbeFailed(t) /\ task'[t].pc = "backoff") =>
                /\ task[t].retrier.attempts < checks[t].policy.max_retries
                /\ task[t].retrier.last = None => task'[t].wait = Some(checks[t].policy.initial)]_vars
    /\ [](\A t \in Tasks :
            /\ task[t].retrier.attempts <= checks[t].policy.max_retries
            /\ task[t].retrier.attempts = 0 <=> task[t].retrier.last = None)
    /\ [][\A t \in Tasks :
            task'[t] # task[t] => \A o \in Tasks \ {t} : task'[o] = task[o]]_vars

\* task 2, whose cycle before used up its one retry, waits the policy's
\* initial after the first failure of its new cycle
C25_Witness ==
    /\ checks[2].policy.max_retries = 1
    /\ task[2].pc = "backoff"
    /\ task[2].wait = Some(checks[2].policy.initial)
    /\ task[2].retrier.attempts = 0
    /\ emitted[2] = <<Waiting(2, checks[2].recheck_interval, "recheck"),
                      Update(2, "Running", None),
                      Update(2, "Retrying", Some("boom"))>>
    /\ task[1].retrier.attempts = 1

\* ------------------------------------------------------ configuration layering
\* OptionalRetryPolicy as a file can give it: each field set or not. The
\* multiplier is the ratio num/den, initial is in seconds.
OptionalRetryPolicies(n, i, m) ==
    [max_retries : {None, Some(n)},
     initial : {None, Some(i)},
     multiplier : {None, Some(m)}]

\* OptionalHttpConfig as a file can give it
OptionalHttpConfigs(u) == [url : {None, Some(u)}]

\* OptionalRetryPolicy::default
OptionalRetryPolicy_default ==
    [max_retries |-> Some(3), initial |-> Some(1),
     multiplier |-> Some([num |-> 11, den |-> 10])]

\* OptionalHttpConfig::default
OptionalHttpConfig_default == [url |-> None]

\* ConfigDefaults::default
ConfigDefaults_default == [http |-> None, retry_policy |-> None]

\* Option::unwrap_or_default
unwrap_or_default(o, default) == IF o = None THEN default ELSE o[1]

\* Merge for Option<T>: a field that is None takes the other's
Option_merge(self, other) == IF self = None THEN other ELSE self

\* derive(Merge) on a struct: field by field
Merge(self, other) == [f \in DOMAIN self |-> Option_merge(self[f], other[f])]

\* merge_configs, and prepare_config up to its try_from
merge_configs(global, check, default) ==
    IF global # None
    THEN Merge(check, Merge(global[1], default))
    ELSE Merge(check, default)

\* Duration::from_secs_f64, on whole seconds, in milliseconds
from_secs_f64(secs) == secs * 1000

\* RetryPolicy::try_from(OptionalRetryPolicy)
RetryPolicy_try_from(policy) ==
    IF policy.max_retries = None \/ policy.initial = None \/ policy.multiplier = None
    THEN [ok |-> FALSE, out |-> <<>>]
    ELSE [ok |-> TRUE,
          out |-> [max_retries |-> policy.max_retries[1],
                   initial |-> from_secs_f64(policy.initial[1]),
                   multiplier |-> policy.multiplier[1]]]

\* HttpConfig::try_from(OptionalHttpConfig)
HttpConfig_try_from(cfg) ==
    IF cfg.url = None THEN [ok |-> FALSE, out |-> <<>>]
    ELSE [ok |-> TRUE, out |-> [url |-> cfg.url[1]]]

\* a configuration file: its defaults, absent or with each block absent or
\* present, and one http check with or without a retry_policy block
InitConfig ==
    /\ RetrierIdle
    /\ DispatcherIdle
    /\ TasksIdle
    /\ SelectIdle
    /\ cfg_defaults \in
          {None} \cup
          {Some(d) : d \in
              [http : {None} \cup {Some(h) : h \in OptionalHttpConfigs("global.example")},
               retry_policy : {None} \cup
                              {Some(r) : r \in OptionalRetryPolicies(5, 2, [num |-> 2, den |-> 1])}]}
    /\ cfg_check \in
          [retry_policy : {None} \cup
                          {Some(r) : r \in OptionalRetryPolicies(7, 4, [num |-> 3, den |-> 2])},
           config : OptionalHttpConfigs("check.example")]
    /\ cfg_probe = None
    /\ cfg_policy = None

\* main: the checker's config, prepare_config(config_defaults.http, http_config)
prepare_probe ==
    /\ cfg_probe = None
    /\ cfg_probe' = Some(HttpConfig_try_from(
                        merge_configs(unwrap_or_default(cfg_defaults, ConfigDefaults_default).http,
                                      cfg_check.config, OptionalHttpConfig_default)))
    /\ UNCHANGED <<dvars, rvars, tvars, svars, cfg_defaults, cfg_check, cfg_policy>>

\* main: the check's policy, RetryPolicy::try_from(merge_configs(
\* config_defaults.retry_policy, check_def.retry_policy.unwrap_or_default())),
\* reached when the checker was built
prepare_policy ==
    /\ cfg_probe # None
    /\ cfg_probe[1].ok
    /\ cfg_policy = None
    /\ cfg_policy' = Some(RetryPolicy_try_from(
                        merge_configs(
                            unwrap_or_default(cfg_defaults, ConfigDefaults_default).retry_policy,
                            unwrap_or_default(cfg_check.retry_policy, OptionalRetryPolicy_default),
                            OptionalRetryPolicy_default)))
    /\ UNCHANGED <<dvars, rvars, tvars, svars, cfg_defaults, cfg_check, cfg_probe>>

NextConfig ==
    \/ prepare_probe
    \/ prepare_policy

SpecConfig == InitConfig /\ [][NextConfig]_vars

\* ------------------------------------------------ configuration layering claims
\* the field f of an optional block, unset when the block is absent
FieldOf(block, f) == IF block = None THEN None ELSE block[1][f]

\* the global defaults' block b, absent when the file has no defaults
GlobalBlock(b) == IF cfg_defaults = None THEN None ELSE cfg_defaults[1][b]

\* the value layering gives: the check's, else the global default's, else the built-in
Layered(check, global, builtin) ==
    IF check # None THEN check
    ELSE IF global # None THEN global
    ELSE builtin

\* the retry policy layering gives for the check of the file
LayeredPolicy ==
    [f \in {"max_retries", "initial", "multiplier"} |->
        Layered(FieldOf(cfg_check.retry_policy, f),
                FieldOf(GlobalBlock("retry_policy"), f),
                OptionalRetryPolicy_default[f])]

\* C26: every resolved field is the per-check value if the check sets it,
\* otherwise the global default if the defaults set it, otherwise the built-in
\* default, for every combination of set and unset fields, a check without a
\* retry_policy block included.
C26_AsStated ==
    /\ (cfg_probe # None /\ cfg_probe[1].ok) =>
          Some(cfg_probe[1].out.url) =
              Layered(cfg_check.config.url, FieldOf(GlobalBlock("http"), "url"), None)
    /\ (cfg_policy # None /\ cfg_policy[1].ok) =>
          /\ Some(cfg_policy[1].out.max_retries) = LayeredPolicy.max_retries
          /\ cfg_policy[1].out.initial = from_secs_f64(LayeredPolicy.initial[1])
          /\ Some(cfg_policy[1].out.multiplier) = LayeredPolicy.multiplier

\* C26, the part the code keeps: the probe parameters are layered, and so is
\* the retry policy of a check that has a retry_policy block
C26_BlockPresent ==
    /\ (cfg_probe # None /\ cfg_probe[1].ok) =>
          Some(cfg_probe[1].out.url) =
              Layered(cfg_check.config.url, FieldOf(GlobalBlock("http"), "url"), None)
    /\ (cfg_policy # None /\ cfg_policy[1].ok /\ cfg_check.retry_policy # None) =>
          /\ Some(cfg_policy[1].out.max_retries) = LayeredPolicy.max_retries
          /\ cfg_policy[1].out.initial = from_secs_f64(LayeredPolicy.initial[1])
          /\ Some(cfg_policy[1].out.multiplier) = LayeredPolicy.multiplier

\* ------------------------------------------- alert dispatcher: ended alerts
\* the alerts of the k-th POST that have endsAt set
EndedIn(k) == {a \in DOMAIN posts[k].payload : a.ends_at # None}

\* the POSTs that carried an alert with endsAt set
EndedPosts == {k \in DOMAIN posts : EndedIn(k) # {}}

\* C27: whenever run waits in its select (or has returned) no entry of
\* AlertState has endsAt set; a POST of a tick, of the final flush or of a
\* Failed update carries no alert with endsAt, the POST of a Succeeded update
\* carries exactly one, and there is at most one such POST per Succeeded
\* update received.
C27_EndedTransient ==
    /\ pc \in {"select", "done"} =>
          \A i \in DOMAIN active_alerts : active_alerts[i].ends_at = None
    /\ \A k \in DOMAIN posts :
          IF posts[k].by = "resolve"
          THEN /\ Cardinality(EndedIn(k)) = 1
               /\ \A a \in EndedIn(k) : posts[k].payload[a] = 1
          ELSE EndedIn(k) = {}
    /\ Cardinality(EndedPosts) <=
          Cardinality({j \in DOMAIN handled : handled[j].status = "Succeeded"})

C27_Witness ==
    /\ pc = "done"
    /\ FailedThenSucceeded(1)
    /\ Len(posts) = 4
    /\ posts[2].by = "tick" /\ posts[2].payload # <<>>
    /\ posts[3].by = "resolve" /\ EndedIn(3) # {}
    /\ posts[4].by = "final" /\ posts[4].payload = <<>>

\* ------------------------------------------------- alert mode: Failed updates
\* the updates of q that follow its last Running of a loop head: what the
\* attempt under way, or the one just over, has sent
SinceRunning(q) ==
    LET heads == {k \in DOMAIN q : q[k].status = "Running" /\ q[k].msg = None}
        from == IF heads = {} THEN 0 ELSE CHOOSE k \in heads : \A j \in heads : j <= k
    IN  SubSeq(q, from + 1, Len(q))

\* this step of t sends Failed
SendsFailed(t) ==
    /\ Holding(SinceRunning(emitted[t]), "Failed") = {}
    /\ Holding(SinceRunning(emitted'[t]), "Failed") # {}

\* the last n probe invocations of t all failed
LastFailed(t, n) ==
    /\ Len(probes[t]) >= n
    /\ \A k \in DOMAIN probes[t] : k > Len(probes[t]) - n => probes[t][k] # "ok"

\* C28: in alert mode Failed is sent only by the step that ends a failed probe
\* invocation with the cycle's max_retries retries all made, the last
\* max_retries + 1 invocations having failed; a probe invocation that succeeds,
\* after failures of its cycle or not, gives Succeeded and no Failed, and one
\* that fails with retries left gives neither; and what follows a Failed in
\* the task's updates is Waiting(recheck_interval, "recheck"), then Running.
C28_FailedOnlyAfterCycle ==
    /\ [][\A t \in Tasks :
            SendsFailed(t) =>
                /\ ProbeFailed(t)
                /\ task[t].retrier.attempts = checks[t].policy.max_retries
                /\ LastFailed(t, checks[t].policy.max_retries + 1)'
                /\ task'[t].pc = "recheck"]_vars
    /\ [][\A t \in Tasks :
            ProbeSucceeded(t) =>
                /\ Holding(SinceRunning(emitted'[t]), "Failed") = {}
                /\ Holding(SinceRunning(emitted'[t]), "Succeeded") # {}
                /\ task'[t].pc = "next_check"]_vars
    /\ [][\A t \in Tasks :
            (ProbeFailed(t) /\ task[t].retrier.attempts < checks[t].policy.max_retries) =>
                /\ Holding(SinceRunning(emitted'[t]), "Failed") = {}
                /\ Holding(SinceRunning(emitted'[t]), "Succeeded") = {}
                /\ task'[t].pc = "backoff"]_vars
    /\ [](\A t \in Tasks : \A k \in Holding(emitted[t], "Failed") :
            /\ k < Len(emitted[t]) =>
                  emitted[t][k + 1] = Waiting(t, checks[t].recheck_interval, "recheck")
            /\ k + 1 < Len(emitted[t]) =>
                  emitted[t][k + 2] = Update(t, "Running", None))

\* task 1, with one retry allowed, has succeeded after a failure of the same
\* cycle and waits for its next check; task 2, with one retry allowed, has
\* failed twice, sent Failed and the recheck wait, and probes again
C28_Witness ==
    /\ checks[1].policy.max_retries = 1
    /\ probes[1] = <<"timeout", "ok">>
    /\ task[1].pc = "next_check"
    /\ task[1].retrier.attempts = 1
    /\ Holding(emitted[1], "Failed") = {}
    /\ checks[2].policy.max_retries = 1
    /\ probes[2] = <<"err", "err">>
    /\ task[2].pc = "probing"
    /\ emitted[2] = <<Update(2, "Failed", Some("Maximum retries reached")),
                      Waiting(2, checks[2].recheck_interval, "recheck"),
                      Update(2, "Running", None)>>

\* --------------------------------------- alert dispatcher: POST outcomes
\* the POSTs issued, without their outcomes
Issued == [k \in DOMAIN posts |-> [payload |-> posts[k].payload, by |-> posts[k].by]]

\* what run holds and has sent, the outcomes of its POSTs left out
Blind == [alerts |-> active_alerts, at |-> pc, cur |-> cur, issued |-> Issued]

\* b after a POST of the alerts m made at call site c
WithPost(b, m, c, i) ==
    [alerts |-> m, at |-> c, cur |-> i,
     issued |-> Append(b.issued, [payload |-> Values(m), by |-> CallSite[c]])]

\* Blind after run has taken the update u at time at
AfterUpdate(b, u, at) ==
    CASE u.status = "Failed" /\ u.id \notin DOMAIN b.alerts /\ u.id \in DOMAIN registry ->
            WithPost(b, MapInsert(b.alerts, u.id, NewAlert(u, registry[u.id], at, alert_config)),
                     "post_insert", Some(u.id))
      [] u.status = "Succeeded" /\ u.id \in DOMAIN b.alerts ->
            WithPost(b, [b.alerts EXCEPT ![u.id].ends_at = Some(at)], "post_resolve", Some(u.id))
      [] OTHER -> b

\* Blind after a tick
AfterTick(b) == IF b.alerts # <<>> THEN WithPost(b, b.alerts, "post_tick", b.cur) ELSE b

\* Blind after the POST under way has returned, with whatever outcome
AfterReturn(b) ==
    [b EXCEPT !.alerts = IF b.at = "post_resolve" THEN MapRemove(b.alerts, b.cur[1]) ELSE b.alerts,
              !.at = IF b.at = "post_final" THEN "done" ELSE "select",
              !.cur = None]

\* C29: what run holds and sends after a step is a function of what it held
\* and had sent before and of the event of the step (an update taken, a tick,
\* the channel closed, the POST under way returned), and the outcome of no POST
\* is among its arguments: AlertState, the position of run and the payloads of
\* the POSTs issued are the same in two runs with the same events, whichever
\* POSTs fail. A POST that returns lets run go on from the same place with
\* either outcome.
C29_BlindToOutcomes ==
    /\ [][Blind' =
            CASE Len(updates') < Len(updates) -> AfterUpdate(Blind, Head(updates), now)
              [] interval' # interval -> AfterTick(Blind)
              [] Len(updates') > Len(updates) \/ senders' # senders \/ now' # now -> Blind
              [] pc \in {"post_insert", "post_resolve", "post_tick", "post_final"} ->
                    AfterReturn(Blind)
              [] OTHER -> WithPost(Blind, active_alerts, "post_final", cur)]_vars
    /\ [](pc \in {"post_insert", "post_resolve", "post_tick", "post_final"} =>
            /\ posts[Len(posts)].result = "pending"
            /\ \A k \in 1..(Len(posts) - 1) : posts[k].result # "pending")
    /\ [](pc \in {"select", "done"} => \A k \in DOMAIN posts : posts[k].result # "pending")

\* the POST of a Succeeded update failed, and run went on to its final flush
\* with the alert removed
C29_Witness ==
    /\ pc = "done"
    /\ Len(posts) = 3
    /\ posts[1].by = "insert" /\ posts[1].result = "ok"
    /\ posts[2].by = "resolve" /\ posts[2].result = "err"
    /\ posts[3].by = "final" /\ posts[3].result = "ok" /\ posts[3].payload = <<>>

\* ------------------------------------------------- report mode: the run's end
\* every task has ended, and the Reporter has received and printed every
\* update the tasks have sent and has ended
OutputComplete ==
    /\ \A t \in Tasks : task[t].pc = "done"
    /\ updates = <<>>
    /\ ppc = "ended"
    /\ \A t \in Tasks : OfTask(handled, t) = emitted[t]
    /\ \A k \in DOMAIN handled : handled[k].id \in Tasks
    /\ Len(printed) = Len(handled)

\* C30: the run's result is made only when every task has ended and the
\* Reporter has received and printed every update any task sent, under every
\* interleaving of the tasks and the Reporter; nothing is sent or printed
\* after it.
C30_OutputBeforeResult ==
    /\ [](result # None => OutputComplete)
    /\ [][(result = None /\ result' # None) =>
            /\ OutputComplete
            /\ UNCHANGED <<emitted, updates, handled, printed, task, ppc>>]_vars
    /\ [][result # None => UNCHANGED <<emitted, updates, handled, printed, result>>]_vars

\* a run that ended well after a retry of each task, the Reporter having
\* started with an update of task 2 and printed the eleven updates sent
C30_Witness ==
    /\ result = Some([ok |-> TRUE, text |-> <<>>])
    /\ probes[1] = <<"timeout", "ok">>
    /\ probes[2] = <<"err", "ok">>
    /\ handled[1].id = 2
    /\ Len(printed) = 11

\* ------------------------------------------- alert dispatcher: one check's run
\* updates one check sends over the run followed here
MaxCheckUpdates == 3

\* the updates the task of check 1 sends in alert mode: Failed with and without
\* a message, Succeeded, and the statuses that tell of its progress
TaskUpdates ==
    [id : {1}, status : {"Failed"}, msg : {None, Some("boom")}]
      \cup [id : {1}, status : {"Succeeded", "Running", "Waiting"}, msg : {None}]
      \cup [id : {1}, status : {"Retrying"}, msg : {Some("boom")}]

\* UnboundedSender::send by the task of check 1
send_by_task ==
    /\ senders > 0
    /\ nsent < MaxCheckUpdates
    /\ \E u \in TaskUpdates : updates' = Append(updates, u)
    /\ nsent' = nsent + 1
    /\ UNCHANGED <<active_alerts, alert_config, senders, pc, cur, interval, now, posts, handled,
                   rvars, svars, cvars, tvars>>

\* the dispatcher with the task of one check as its producer
NextLifecycle ==
    \/ run_recv
    \/ run_closed
    \/ run_tick
    \/ post_complete
    \/ send_by_task
    \/ drop_sender
    \/ advance_time

\* run as it starts, the task of check 1 holding the channel's one producer
\* handle, with the output of a failed check allowed into its alert
InitLifecycle ==
    /\ RetrierIdle
    /\ TasksIdle
    /\ SelectIdle
    /\ ConfigIdle
    /\ active_alerts = <<>>
    /\ alert_config = [allow_output_annotation |-> TRUE,
                       realert_interval |-> RealertInterval]
    /\ updates = <<>>
    /\ senders = 1
    /\ nsent = 0
    /\ pc = "select"
    /\ cur = None
    /\ interval = 0
    /\ now = 0
    /\ posts = <<>>
    /\ handled = <<>>

SpecLifecycle == InitLifecycle /\ [][NextLifecycle]_vars

\* ---------------------------------------- alert dispatcher: lifecycle claims
\* the alerts with endsAt set that the POSTs so far carried for check i
EndedFor(i) ==
    {a \in UNION {EndedIn(k) : k \in DOMAIN posts} : a.labels = registry[i].labels}

====
